---------------------------- MODULE Spec2Model ----------------------------
(***************************************************************************)
(* Model of the YouTube uploader: the quota ledger and token bucket of     *)
(* RateLimiter (src/src/utils/rate_limiter.py), the chunked transfer       *)
(* engine of VideoUploader (src/src/uploader/video_uploader.py), the       *)
(* playlist lookup of PlaylistManager                                      *)
(* (src/src/playlist/playlist_manager.py) and the batch loop               *)
(* YouTubeUploader.process_uploads (src/main.py).                          *)
(*                                                                         *)
(* Units.  Time is counted in whole seconds.  The token bucket is kept in  *)
(* sixtieths of a token, so that the refill of rate_limiter.py:116,        *)
(* (elapsed / 60.0) * max_requests_per_minute tokens, is the integer       *)
(* elapsed * max_requests_per_minute sixtieths, and the wait of            *)
(* rate_limiter.py:129 is an exact number of seconds for every capacity    *)
(* that divides 60.                                                        *)
(***************************************************************************)
EXTENDS Integers, Sequences, FiniteSets, TLC

VARIABLES
    \* ---- RateLimiter ----
    max_requests_per_minute, \* self.max_requests_per_minute
    tokens,                  \* self.tokens, in sixtieths of a token
    since_refill,            \* time.time() - self.last_refill, seconds
    quota_data,              \* self.quota_data (the in-memory ledger)
    quota_file,              \* the document in ./data/quota_tracking.json
    data_writable,           \* whether files under ./data can be written in this run
    now,                     \* datetime.now(timezone.utc), in hours since day 0, 00:00
    \* ---- UploadHistory ----
    history,                 \* self.history["uploads"]
    history_file,            \* the records in the upload history file
    \* ---- PlaylistManager and the remote service ----
    playlist_cache,          \* self._playlist_cache: title -> id
    remote_playlists,        \* playlists of the account: title -> how many
    remote_videos,           \* videos of the account: file name -> uploads that gave an id
    \* ---- YouTubeUploader.process_uploads ----
    video_files,             \* scan_videos(): the queue, in processing order
    idx,                     \* position of the for loop (1-based)
    pc,                      \* the statement process_uploads is at
    stats,                   \* the stats dictionary
    video_id,                \* local video_id of the current file
    playlist_id,             \* local playlist_id of the current file
    create_if_not_exists,    \* config.playlist.create_if_not_exists
    \* ---- YouTubeUploader.run ----
    exit_code,               \* the codes run() has returned: none while it is running
    \* ---- VideoUploader ----
    max_retries,             \* self.max_retries
    retry_delay,             \* self.retry_delay
    up,                      \* one upload_video call: the transfer in flight
    ref,                     \* the same transfer with a callback that never raises
    \* ---- observation of the run (history variables) ----
    calls,                   \* the calls process_uploads has made, in order
    snap                     \* ledger, bucket and counters when the current file began

vars == << max_requests_per_minute, tokens, since_refill, quota_data, quota_file,
           data_writable, now,
           history, history_file, playlist_cache, remote_playlists, remote_videos,
           video_files, idx, pc, stats, video_id, playlist_id, create_if_not_exists,
           exit_code, max_retries, retry_delay, up, ref, calls, snap >>

limiterVars == << max_requests_per_minute, tokens, since_refill, quota_data, quota_file,
                 data_writable, now >>
batchVars == << history, history_file, playlist_cache, remote_playlists, remote_videos,
                video_files, idx, pc, stats, video_id, playlist_id,
                create_if_not_exists, exit_code, calls, snap >>

None == "None"

\* run() has not returned
Running == << >>

Min(a, b) == IF a <= b THEN a ELSE b
Max(a, b) == IF a >= b THEN a ELSE b

RECURSIVE Pow2(_)
Pow2(n) == IF n <= 0 THEN 1 ELSE 2 * Pow2(n - 1)

(***************************************************************************)
(* Bounds of the model.                                                    *)
(***************************************************************************)
MaxFiles == 3
MaxChunks == 2
MaxRetriesBound == 2
MaxOperations == 2    \* entries of a ledger's operations log
MaxDays == 1          \* days the clock runs beyond day 0
MaxRuns == 2          \* runs of the program over one videos directory
MaxRunFiles == 2      \* files of that directory
MaxThreads == 2       \* uploaders that share one RateLimiter
MaxWindow == 120      \* seconds a window of time is watched for

(***************************************************************************)
(* RateLimiter: the quota ledger.                                          *)
(***************************************************************************)
OPERATION_COSTS ==
    [ video_upload    |-> 1600,
      video_insert    |-> 1600,
      playlist_create |-> 50,
      playlist_insert |-> 50,
      playlist_list   |-> 1,
      video_list      |-> 1 ]

\* OPERATION_COSTS.get(operation, 0)
estimate_operation_cost(operation) ==
    IF operation \in DOMAIN OPERATION_COSTS THEN OPERATION_COSTS[operation] ELSE 0

DefaultDailyQuota == 10000

\* A datetime is a whole number of hours since 00:00 UTC of day 0: the
\* ledger's reset_time is on the hour (line 85), and of the current time
\* only the date (line 71) and the hour (line 87) are read.
HoursPerDay == 24
RESET_HOUR == 8

\* datetime.date() and datetime.hour
date(t) == t \div HoursPerDay
hour(t) == t % HoursPerDay

\* a faulty variant of NextDay: the reset time is not moved to the next day
SameDay(hr) == FALSE

\* line 87, `if now.hour >= 8`
NextDay(hr) == hr >= RESET_HOUR

\* lines 83-91: now.replace(hour=8, minute=0, ...), a day later if now.hour >= 8
next_reset_time(t) ==
    LET reset_time == date(t) * HoursPerDay + RESET_HOUR
    IN  IF NextDay(hour(t)) THEN reset_time + HoursPerDay ELSE reset_time

\* _create_new_quota_data at time t
create_new_quota_data(daily_quota, t) ==
    [ daily_quota     |-> daily_quota,
      used_quota      |-> 0,
      remaining_quota |-> daily_quota,
      reset_time      |-> next_reset_time(t),
      operations      |-> << >> ]

\* line 71, `if reset_time.date() < datetime.now(timezone.utc).date()`
DataIsStale(reset_time, t) == date(reset_time) < date(t)

\* The quota file is the sequence of the documents in it: none when the
\* file does not exist, else one.  A document is a JSON object, the
\* sequence of its members << key, value >> in the order they were written;
\* a document json.load cannot read is the one without members.
NoFile == << >>
Unreadable == << >>

LedgerKeys == << "daily_quota", "used_quota", "remaining_quota", "reset_time", "operations" >>
OperationKeys == << "type", "cost", "details" >>

\* json.dump of a dictionary with the given keys
json_object(dict, keys) == [ i \in 1..Len(keys) |-> << keys[i], dict[keys[i]] >> ]

\* json.dump(self.quota_data, f), line 106
json_dump(qd) ==
    LET log == [ i \in 1..Len(qd.operations) |->
                   json_object(qd.operations[i], OperationKeys) ]
    IN  json_object([ qd EXCEPT !.operations = log ], LedgerKeys)

json_has(doc, key) == \E i \in 1..Len(doc) : doc[i][1] = key
json_member(doc, key) == doc[CHOOSE i \in 1..Len(doc) : doc[i][1] = key][2]

\* a document that has lost one of its members
json_without(doc, key) == SelectSeq(doc, LAMBDA member : member[1] # key)

\* json.load(f), line 68, of a document json.dump wrote
json_load(doc) ==
    LET log == json_member(doc, "operations")
    IN  [ daily_quota     |-> json_member(doc, "daily_quota"),
          used_quota      |-> json_member(doc, "used_quota"),
          remaining_quota |-> json_member(doc, "remaining_quota"),
          reset_time      |-> json_member(doc, "reset_time"),
          operations      |-> [ i \in 1..Len(log) |->
                                  [ type    |-> json_member(log[i], "type"),
                                    cost    |-> json_member(log[i], "cost"),
                                    details |-> json_member(log[i], "details") ] ] ]

\* a faulty variant of load_quota_data: a stale ledger has its use forgotten
\* and its remainder kept
load_quota_data_keeping_remainder(file, daily_quota, t) ==
    IF file = NoFile THEN create_new_quota_data(daily_quota, t)
    ELSE IF ~json_has(file[1], "reset_time")
    THEN create_new_quota_data(daily_quota, t)
    ELSE LET data == json_load(file[1])
         IN  IF DataIsStale(data.reset_time, t)
             THEN [ data EXCEPT !.used_quota = 0, !.reset_time = next_reset_time(t) ]
             ELSE data

\* _load_quota_data at time t, for a limiter constructed with daily_quota:
\* lines 65-78
load_quota_data(file, daily_quota, t) ==
    IF file = NoFile THEN create_new_quota_data(daily_quota, t)
    ELSE IF ~json_has(file[1], "reset_time")
    THEN create_new_quota_data(daily_quota, t)   \* fromisoformat("") raises
    ELSE LET data == json_load(file[1])
         IN  IF DataIsStale(data.reset_time, t)
             THEN create_new_quota_data(daily_quota, t)
             ELSE data

\* a faulty variant of CostExceeds: a cost equal to the remainder is refused
CostReaches(cost, remaining) == cost >= remaining

\* check_quota, line 149: `if cost > remaining`
CostExceeds(cost, remaining) == cost > remaining

\* a faulty variant of check_quota: the cost is held against the daily quota
check_quota_of_day(qd, operation) ==
    IF CostExceeds(estimate_operation_cost(operation), qd.daily_quota)
    THEN FALSE
    ELSE TRUE

\* check_quota, lines 146-158
check_quota(qd, operation) ==
    IF CostExceeds(estimate_operation_cost(operation), qd.remaining_quota)
    THEN FALSE
    ELSE TRUE

RECURSIVE TotalCost(_, _)
TotalCost(operations, left) ==
    IF left = {} THEN 0
    ELSE LET op == CHOOSE o \in left : TRUE
         IN  estimate_operation_cost(op) * operations[op]
               + TotalCost(operations, left \ {op})

\* a faulty variant of can_perform_operations: a total equal to the remainder
\* is refused
can_perform_operations_strict(qd, operations) ==
    TotalCost(operations, DOMAIN operations) < qd.remaining_quota

\* a faulty variant of can_perform_operations: the total is not compared
can_perform_operations_unchecked(qd, operations) ==
    TotalCost(operations, DOMAIN operations) >= 0

\* can_perform_operations, lines 226-230
can_perform_operations(qd, operations) ==
    TotalCost(operations, DOMAIN operations) <= qd.remaining_quota

\* a faulty variant of ConsumeLedger: the remainder is not taken below zero
ConsumeLedgerClamped(qd, operation, details) ==
    LET cost == estimate_operation_cost(operation)
    IN  [ qd EXCEPT !.used_quota = @ + cost,
                    !.remaining_quota = IF @ - cost < 0 THEN 0 ELSE @ - cost,
                    !.operations = Append(@, [ type    |-> operation,
                                               cost    |-> cost,
                                               details |-> details ]) ]

\* a faulty variant of ConsumeLedger: the log keeps the newest record only
ConsumeLedgerKeepingLast(qd, operation, details) ==
    LET cost == estimate_operation_cost(operation)
    IN  [ qd EXCEPT !.used_quota = @ + cost,
                    !.remaining_quota = @ - cost,
                    !.operations = << [ type    |-> operation,
                                        cost    |-> cost,
                                        details |-> details ] >> ]

\* consume_quota, lines 168-179: the in-memory update
ConsumeLedger(qd, operation, details) ==
    LET cost == estimate_operation_cost(operation)
    IN  [ qd EXCEPT !.used_quota = @ + cost,
                    !.remaining_quota = @ - cost,
                    !.operations = Append(@, [ type    |-> operation,
                                               cost    |-> cost,
                                               details |-> details ]) ]

\* a faulty variant of save_quota_data: a file that exists is left as it is
save_quota_data_once(qd, file, write_ok) ==
    IF write_ok /\ file = NoFile THEN << json_dump(qd) >> ELSE file

\* _save_quota_data: the file is rewritten in full, or the write fails and
\* the error is logged
save_quota_data(qd, file, write_ok) == IF write_ok THEN << json_dump(qd) >> ELSE file

(***************************************************************************)
(* RateLimiter: the token bucket.                                          *)
(***************************************************************************)
SecondsPerMinute == 60
TokenUnit == SecondsPerMinute

\* a faulty variant of refill_tokens: the bucket is not capped
refill_tokens_uncapped(tok, elapsed, capacity) == tok + elapsed * capacity

\* a faulty variant of refill_tokens: the bucket fills at twice the rate
refill_tokens_at_twice_the_rate(tok, elapsed, capacity) ==
    Min(capacity * TokenUnit, tok + 2 * elapsed * capacity)

\* _refill_tokens with `elapsed` seconds since last_refill
refill_tokens(tok, elapsed, capacity) ==
    Min(capacity * TokenUnit, tok + elapsed * capacity)

\* a faulty variant of wait_time: the time of a whole token, whatever is there
wait_time_of_whole_token(tok, capacity) == SecondsPerMinute \div capacity

\* wait_time of line 129, in seconds
wait_time(tok, capacity) ==
    ((TokenUnit - tok) * (SecondsPerMinute \div capacity)) \div TokenUnit

\* the while loop of wait_for_token: sleep, refill, until one token is there
RECURSIVE AwaitToken(_, _)
AwaitToken(tok, capacity) ==
    IF tok < TokenUnit
    THEN AwaitToken(refill_tokens(tok, wait_time(tok, capacity), capacity), capacity)
    ELSE tok

\* wait_for_token: the tokens left when it returns
wait_for_token(tok, elapsed, capacity) ==
    AwaitToken(refill_tokens(tok, elapsed, capacity), capacity) - TokenUnit

\* seconds spent asleep inside wait_for_token
RECURSIVE SleptForToken(_, _)
SleptForToken(tok, capacity) ==
    IF tok < TokenUnit
    THEN wait_time(tok, capacity)
           + SleptForToken(refill_tokens(tok, wait_time(tok, capacity), capacity), capacity)
    ELSE 0


(***************************************************************************)
(* VideoUploader: the chunked resumable transfer.                          *)
(*                                                                         *)
(* A chunk result is what one request.next_chunk() call gives:             *)
(*   progress         (status, None): more chunks remain                   *)
(*   response         (None, body): the terminal response, with or         *)
(*                    without an "id"                                      *)
(*   http, resumable  HttpError / ResumableUploadError with resp.status    *)
(*   connection       ConnectionError                                      *)
(*   other            any exception outside the three retried classes      *)
(***************************************************************************)
RETRYABLE_STATUS == {500, 502, 503, 504}
HttpStatuses == {404, 500, 503}
ResumableStatuses == {403, 503}

Progress == [ kind |-> "progress", status |-> 0, id |-> FALSE ]
Response(has_id) == [ kind |-> "response", status |-> 200, id |-> has_id ]
HttpFailure(status) == [ kind |-> "http", status |-> status, id |-> FALSE ]
ResumableFailure(status) == [ kind |-> "resumable", status |-> status, id |-> FALSE ]
ConnectionFailure == [ kind |-> "connection", status |-> 0, id |-> FALSE ]
OtherFailure == [ kind |-> "other", status |-> 0, id |-> FALSE ]

Failures ==
    { HttpFailure(s) : s \in HttpStatuses }
      \cup { ResumableFailure(s) : s \in ResumableStatuses }
      \cup { ConnectionFailure, OtherFailure }

\* googleapiclient.errors: class ResumableUploadError(HttpError), so an
\* `except HttpError` clause also catches a ResumableUploadError
IsHttpError(r) == r.kind \in {"http", "resumable"}
IsResumableUploadError(r) == r.kind = "resumable"

\* retry_if_exception_type((HttpError, ResumableUploadError, ConnectionError))
TenacityRetries(r) == IsHttpError(r) \/ IsResumableUploadError(r) \/ r.kind = "connection"

STOP_AFTER_ATTEMPT == 5
WAIT_MULTIPLIER == 2
WAIT_MIN == 2
WAIT_MAX == 300

\* tenacity wait_exponential(multiplier=2, min=2, max=300) after attempt number n
wait_exponential(n) ==
    Max(Max(0, WAIT_MIN), Min(WAIT_MULTIPLIER * Pow2(n - 1), WAIT_MAX))

\* time.sleep(self.retry_delay * (2**error_count))
backoff_delay(delay, error_count) == delay * Pow2(error_count)

NoFailure == [ kind |-> None, status |-> 0, before |-> 0, after |-> 0,
               slept_by |-> None, delay |-> 0 ]

\* The state of one upload_video call.  max_retries and retry_delay are the
\* uploader's fields as the call reads them; status, attempt, error_count,
\* response, acked and nchunks are the call's own; the other fields record
\* what the call has done so far.
NewTransfer(nchunks, status, retries, delay) ==
    [ status      |-> status,  \* idle, running, returned, raised, done
      valid       |-> TRUE,    \* validate_video_file's verdict (line 259)
      rich_available |-> TRUE, \* whether the import of lines 263-276 succeeded
      max_retries |-> retries,
      retry_delay |-> delay,
      result      |-> None,    \* what upload_video returned
      attempt     |-> 1,       \* tenacity's attempt_number
      error_count |-> 0,
      response    |-> None,
      acked       |-> 0,       \* chunks the resumable session has acknowledged
      nchunks     |-> nchunks, \* chunks of the file
      sends       |-> 0,       \* next_chunk calls made
      sleeps      |-> 0,       \* time.sleep calls made (loop and tenacity)
      slept       |-> 0,       \* seconds asleep
      all_5xx     |-> TRUE,    \* every next_chunk so far failed with a retryable HttpError
      \* a plain HttpError outside 500/502/503/504 was met, and what followed it
      fatal       |-> [ seen |-> FALSE, sends |-> 0, sleeps |-> 0 ],
      last_fail   |-> NoFailure,
      cb_calls    |-> 0,
      cb_raised   |-> 0 ]

Sleep(e, seconds) ==
    [ e EXCEPT !.sleeps = @ + 1,
               !.slept = @ + seconds,
               !.fatal.sleeps = IF e.fatal.seen THEN @ + 1 ELSE @ ]

\* a faulty variant of Escapes: the wrapper's next attempt starts the file
\* from its first byte
EscapesRestarting(e, r) ==
    IF TenacityRetries(r) /\ e.attempt < STOP_AFTER_ATTEMPT
    THEN [ Sleep(e, wait_exponential(e.attempt))
             EXCEPT !.attempt = @ + 1,
                    !.error_count = 0,
                    !.response = None,
                    !.acked = 0,
                    !.last_fail.slept_by = "tenacity",
                    !.last_fail.delay = wait_exponential(e.attempt) ]
    ELSE [ e EXCEPT !.status = "raised" ]

\* An exception leaves _execute_upload_with_retry: the tenacity wrapper of
\* lines 163-170 calls the function again (response = None, error_count = 0,
\* the same request object) or re-raises into upload_video
Escapes(e, r) ==
    IF TenacityRetries(r) /\ e.attempt < STOP_AFTER_ATTEMPT
    THEN [ Sleep(e, wait_exponential(e.attempt))
             EXCEPT !.attempt = @ + 1,
                    !.error_count = 0,
                    !.response = None,
                    !.last_fail.slept_by = "tenacity",
                    !.last_fail.delay = wait_exponential(e.attempt) ]
    ELSE [ e EXCEPT !.status = "raised" ]

Failed(e, r, after) ==
    [ e EXCEPT !.error_count = after,
               !.last_fail = [ kind |-> r.kind, status |-> r.status,
                               before |-> e.error_count, after |-> after,
                               slept_by |-> None, delay |-> 0 ] ]

\* lines 223-227 and 235-239: count the error, give up or back off
RetryInLoop(e, r) ==
    LET f == Failed(e, r, e.error_count + 1)
    IN  IF f.error_count > e.max_retries
        THEN Escapes(f, r)
        ELSE [ Sleep(f, backoff_delay(e.retry_delay, f.error_count))
                 EXCEPT !.last_fail.slept_by = "loop",
                        !.last_fail.delay = backoff_delay(e.retry_delay, f.error_count) ]

\* the except clauses of the chunk loop, tried in the order they are written
HandleChunkError(e, r) ==
    IF IsHttpError(r)
    THEN IF r.status \in RETRYABLE_STATUS
         THEN RetryInLoop(e, r)
         ELSE Escapes(Failed(e, r, e.error_count), r)
    ELSE IF IsResumableUploadError(r)
    THEN RetryInLoop(e, r)
    ELSE Escapes(Failed(e, r, e.error_count), r)

\* a faulty variant of CallbackEscapes: the call is not guarded
CallbackEscapesUncaught(raises) == raises

\* lines 201-213: does an exception raised by progress_callback leave the
\* try block around the call?
CallbackEscapes(raises) == FALSE

\* a faulty variant of error_count_after_chunk: a chunk that is sent gives
\* the transfer its retries back
error_count_reset_by_chunk(count) == 0

\* lines 190-213: error_count, set at line 187, when next_chunk has
\* returned a progress
error_count_after_chunk(count) == count

\* one pass of `while response is None`, with next_chunk giving r
ChunkStep(e, r, cb_raises) ==
    LET sent == [ e EXCEPT !.sends = @ + 1,
                           !.all_5xx = @ /\ r.kind = "http" /\ r.status \in RETRYABLE_STATUS,
                           !.fatal.sends = IF e.fatal.seen THEN @ + 1 ELSE @ ]
    IN  CASE r.kind = "progress" ->
               LET called == [ sent EXCEPT !.acked = @ + 1,
                                           !.error_count = error_count_after_chunk(@),
                                           !.cb_calls = @ + 1,
                                           !.cb_raised = IF cb_raises THEN @ + 1 ELSE @ ]
               IN  IF cb_raises /\ CallbackEscapes(cb_raises)
                   THEN Escapes(called, OtherFailure)
                   ELSE called
          [] r.kind = "response" ->
               [ sent EXCEPT !.response = IF r.id THEN "id" ELSE "noid",
                             !.status = "returned" ]
          [] OTHER ->
               LET seen == [ sent EXCEPT !.fatal.seen =
                                @ \/ (r.kind = "http" /\ r.status \notin RETRYABLE_STATUS) ]
               IN  HandleChunkError(seen, r)

\* what next_chunk can give in state e: the terminal response comes with the
\* last chunk of the file
ChunkResults(e) ==
    (IF e.acked < e.nchunks - 1 THEN {Progress} ELSE {Response(TRUE), Response(FALSE)})
      \cup Failures

\* a faulty variant of upload_result: the response is not asked for its id
upload_result_of_any_response(e) ==
    IF e.status = "returned" THEN "id" ELSE None

\* upload_video lines 443-461: the id of the response, None for a response
\* without one and for every exception
upload_result(e) ==
    IF e.status = "returned" /\ e.response = "id" THEN "id" ELSE None

\* upload_video lines 258-310: validation, the import of rich, the columns.
\* The names imported at lines 264-272 are local to upload_video; when the
\* import fails they stay unbound, line 304 raises UnboundLocalError and
\* the clause of line 459 returns None before any chunk is sent.
BeginTransfer(valid, rich_available, nchunks, retries, delay) ==
    IF ~valid
    THEN [ NewTransfer(nchunks, "done", retries, delay) EXCEPT !.valid = FALSE ]
    ELSE IF ~rich_available
    THEN [ NewTransfer(nchunks, "done", retries, delay) EXCEPT !.rich_available = FALSE ]
    ELSE NewTransfer(nchunks, "running", retries, delay)


(***************************************************************************)
(* One upload_video call, chunk by chunk.                                  *)
(***************************************************************************)
RetryDelays == {1, 3}

Idle == NewTransfer(1, "idle", 1, 1)

\* The parts of the state an action of the transfer leaves alone.
TransferFrame ==
    UNCHANGED << limiterVars, batchVars, max_retries, retry_delay >>

\* upload_video is entered: the file is validated, rich is imported and the
\* resumable request is created
StartUpload ==
    /\ up.status = "idle"
    /\ \E valid \in BOOLEAN, rich_available \in BOOLEAN, nchunks \in 1..MaxChunks :
          /\ up' = BeginTransfer(valid, rich_available, nchunks, max_retries, retry_delay)
          /\ ref' = BeginTransfer(valid, rich_available, nchunks, max_retries, retry_delay)
    /\ TransferFrame

\* one request.next_chunk() and what the loop and its wrapper do with it
SendChunk ==
    /\ up.status = "running"
    /\ \E r \in ChunkResults(up), cb_raises \in BOOLEAN :
          /\ up' = ChunkStep(up, r, cb_raises)
          /\ ref' = IF ref.status = "running" THEN ChunkStep(ref, r, FALSE) ELSE ref
    /\ TransferFrame

\* upload_video returns: the id, or None
ReturnFromUpload ==
    /\ up.status \in {"returned", "raised"}
    /\ up' = [ up EXCEPT !.status = "done", !.result = upload_result(up) ]
    /\ ref' = IF ref.status \in {"returned", "raised"}
              THEN [ ref EXCEPT !.status = "done", !.result = upload_result(ref) ]
              ELSE ref
    /\ TransferFrame

EmptyStats == [ total |-> 0, successful |-> 0, failed |-> 0, skipped |-> 0, videos |-> << >> ]

InitUpload ==
    /\ max_requests_per_minute = 60
    /\ tokens = 60 * TokenUnit
    /\ since_refill = 0
    /\ now = 0
    /\ quota_data = create_new_quota_data(DefaultDailyQuota, now)
    /\ quota_file = NoFile
    /\ data_writable = TRUE
    /\ history = << >>
    /\ history_file = << >>
    /\ playlist_cache = << >>
    /\ remote_playlists = << >>
    /\ remote_videos = << >>
    /\ video_files = << >>
    /\ idx = 1
    /\ pc = "upload"
    /\ stats = EmptyStats
    /\ video_id = None
    /\ playlist_id = None
    /\ exit_code = Running
    /\ create_if_not_exists = TRUE
    /\ calls = << >>
    /\ snap = << >>
    /\ max_retries \in 1..MaxRetriesBound
    /\ retry_delay \in RetryDelays
    /\ up = Idle
    /\ ref = Idle

NextUpload == StartUpload \/ SendChunk \/ ReturnFromUpload

SpecUpload == InitUpload /\ [][NextUpload]_vars


(***************************************************************************)
(* The transport as process_uploads meets it: how the remote end answers   *)
(* the next_chunk calls of one transfer.                                   *)
(***************************************************************************)
Transports ==
    {"ok", "no_id", "flaky_503", "always_503", "always_404", "connection", "other"}

LastChunkOr(e, r) == IF e.acked < e.nchunks - 1 THEN Progress ELSE r

TransportResult(behaviour, e) ==
    CASE behaviour = "ok"         -> LastChunkOr(e, Response(TRUE))
      [] behaviour = "no_id"      -> LastChunkOr(e, Response(FALSE))
      [] behaviour = "flaky_503"  -> IF e.sends = 0 THEN HttpFailure(503)
                                     ELSE LastChunkOr(e, Response(TRUE))
      [] behaviour = "always_503" -> HttpFailure(503)
      [] behaviour = "always_404" -> HttpFailure(404)
      [] behaviour = "connection" -> ConnectionFailure
      [] OTHER                    -> OtherFailure

\* _execute_upload_with_retry run to its end against one transport
RECURSIVE RunTransfer(_, _)
RunTransfer(e, behaviour) ==
    IF e.status = "running"
    THEN RunTransfer(ChunkStep(e, TransportResult(behaviour, e), FALSE), behaviour)
    ELSE e

\* how one upload_video call came to its end
transfer_end(e) ==
    IF ~e.valid THEN "invalid"
    ELSE IF ~e.rich_available THEN "no_progress_columns"
    ELSE IF e.status = "raised" THEN "raised"
    ELSE IF e.response = "id" THEN "response_with_id"
    ELSE "response_without_id"

\* upload_video as one call: the returned id (or None), how the call ended
\* and the seconds slept
upload_video(valid, rich_available, nchunks, retries, delay, behaviour) ==
    LET e == RunTransfer(BeginTransfer(valid, rich_available, nchunks, retries, delay),
                         behaviour)
    IN  [ video_id |-> upload_result(e), ended |-> transfer_end(e), slept |-> e.slept ]

\* VideoUploader.__init__: max_retries = 5, retry_delay = 2
DEFAULT_MAX_RETRIES == 5
DEFAULT_RETRY_DELAY == 2

\* every way one upload_video call of the batch can end, for a file that
\* passes validation and for one that does not
UploadEndings ==
    [ valid \in BOOLEAN |->
        { upload_video(valid, rich_available, nchunks,
                       DEFAULT_MAX_RETRIES, DEFAULT_RETRY_DELAY, behaviour) :
            rich_available \in BOOLEAN, nchunks \in 1..MaxChunks,
            behaviour \in Transports } ]

\* what process_uploads sees of them: the value returned and the time spent
UploadOutcomes ==
    [ valid \in BOOLEAN |->
        { [ video_id |-> r.video_id, slept |-> r.slept ] : r \in UploadEndings[valid] } ]

(***************************************************************************)
(* UploadHistory.                                                          *)
(***************************************************************************)
\* is_uploaded: the loop over history["uploads"]
RECURSIVE is_uploaded_from(_, _, _)
is_uploaded_from(uploads, filename, i) ==
    IF i > Len(uploads) THEN FALSE
    ELSE IF uploads[i].filename = filename /\ uploads[i].status = "completed" THEN TRUE
    ELSE is_uploaded_from(uploads, filename, i + 1)

\* a faulty variant of is_uploaded: the history is not consulted
is_uploaded_never(uploads, filename) == FALSE

is_uploaded(uploads, filename) == is_uploaded_from(uploads, filename, 1)

\* add_upload: the record appended to history["uploads"]
add_upload(uploads, filename, vid, pid, status) ==
    Append(uploads, [ filename |-> filename, video_id |-> vid,
                      playlist_id |-> pid, status |-> status ])

\* a faulty variant of load_history: the file is not read
load_history_empty(file) == << >>

\* _load_history, lines 39-46: the uploads of the file, none without a file
load_history(file) == file

\* _save_history: the file is rewritten, or the write fails and is logged
save_history(uploads, file, write_ok) == IF write_ok THEN uploads ELSE file

(***************************************************************************)
(* PlaylistManager.get_or_create_playlist.                                 *)
(***************************************************************************)
Titles == {"A"}

PlaylistId(title, n) == << title, n >>

\* list_playlists caches every playlist it is given; for a title held by
\* several playlists the last one listed stays in the cache
CacheAfterListing(cache, remote) ==
    [ t \in Titles |-> IF remote[t] > 0 THEN PlaylistId(t, remote[t]) ELSE cache[t] ]

\* The outcome of get_or_create_playlist(title): the id returned, the cache
\* and the account's playlists afterwards, and the API requests made.
get_or_create_playlist(cache, remote, title, create_missing, list_ok, create_ok) ==
    IF cache[title] # None
    THEN [ id |-> cache[title], cache |-> cache, remote |-> remote, api |-> << >> ]
    ELSE LET listed == IF list_ok THEN CacheAfterListing(cache, remote) ELSE cache
             found  == IF list_ok /\ remote[title] > 0 THEN PlaylistId(title, 1) ELSE None
         IN  IF found # None
             THEN [ id |-> found, cache |-> listed, remote |-> remote,
                    api |-> << "playlists_list" >> ]
             ELSE IF ~create_missing
             THEN [ id |-> None, cache |-> listed, remote |-> remote,
                    api |-> << "playlists_list" >> ]
             ELSE IF create_ok
             THEN [ id     |-> PlaylistId(title, remote[title] + 1),
                    cache  |-> [ listed EXCEPT ![title] = PlaylistId(title, remote[title] + 1) ],
                    remote |-> [ remote EXCEPT ![title] = @ + 1 ],
                    api    |-> << "playlists_list", "playlists_insert" >> ]
             ELSE [ id |-> None, cache |-> listed, remote |-> remote,
                    api |-> << "playlists_list", "playlists_insert" >> ]


(***************************************************************************)
(* YouTubeUploader.process_uploads: the loop over the scanned files.       *)
(***************************************************************************)
NetSeconds == {0, 60}

Call(op, file, arg, result) == [ op |-> op, file |-> file, arg |-> arg, result |-> result ]

RECURSIVE ApiCalls(_, _)
ApiCalls(api, file) ==
    IF api = << >> THEN << >>
    ELSE << Call(Head(api), file, None, None) >> \o ApiCalls(Tail(api), file)

File == video_files[idx]

\* a faulty variant of UploadSucceeded: the id is not looked at
UploadSucceededAlways(vid) == TRUE

\* line 306, `if video_id:`
UploadSucceeded(vid) == vid # None

\* a faulty variant of AttachSucceeded: the attach's result is not looked at
AttachSucceededAlways(added) == TRUE

\* lines 323-325, `if self.playlist_manager.add_video_to_playlist(...)`
AttachSucceeded(added) == added

\* a faulty variant of LeaveLoop: `continue` in the place of `break`
SkipFile(i) == [ pc |-> "loop", idx |-> i + 1 ]

\* lines 282 and 291, `break`: where the loop is afterwards
LeaveLoop(i) == [ pc |-> "done", idx |-> i ]

\* lines 265-277: the next file of the queue, skipped when the history has it
NextFile ==
    /\ pc = "loop"
    /\ IF idx > Len(video_files)
       THEN /\ pc' = "done"
            /\ UNCHANGED << idx, stats, snap >>
       ELSE /\ snap' = [ snap EXCEPT !.file = idx, !.tokens = tokens,
                                     !.quota_data = quota_data, !.stats = stats,
                                     !.history = history, !.ncalls = Len(calls) ]
            /\ IF is_uploaded(history, File.name)
               THEN /\ stats' = [ stats EXCEPT !.skipped = @ + 1 ]
                    /\ idx' = idx + 1
                    /\ pc' = "loop"
               ELSE /\ pc' = "check_quota"
                    /\ UNCHANGED << idx, stats >>
    /\ UNCHANGED << limiterVars, history, history_file, playlist_cache, remote_playlists,
                    remote_videos, video_files, video_id, playlist_id, create_if_not_exists, calls,
                    max_retries, retry_delay, up, ref, exit_code >>

\* lines 279-282: check_quota("video_upload")
CheckQuota ==
    /\ pc = "check_quota"
    /\ LET ok == check_quota(quota_data, "video_upload")
       IN  /\ calls' = Append(calls, Call("check_quota", idx, "video_upload", ok))
           /\ IF ~ok
              THEN /\ pc' = LeaveLoop(idx).pc
                   /\ idx' = LeaveLoop(idx).idx
              ELSE /\ pc' = IF File.playlist # None THEN "check_playlist_quota"
                                                   ELSE "wait_for_token"
                   /\ idx' = idx
    /\ UNCHANGED << limiterVars, history, history_file, playlist_cache, remote_playlists,
                    remote_videos, video_files, stats, video_id, playlist_id, create_if_not_exists, snap,
                    max_retries, retry_delay, up, ref, exit_code >>

\* lines 284-291: can_perform_operations for a file with a playlist
CheckPlaylistQuota ==
    /\ pc = "check_playlist_quota"
    /\ LET ok == can_perform_operations(quota_data,
                     [ video_upload |-> 1, playlist_insert |-> 1 ])
       IN  /\ calls' = Append(calls, Call("can_perform_operations", idx, None, ok))
           /\ IF ~ok
              THEN /\ pc' = LeaveLoop(idx).pc
                   /\ idx' = LeaveLoop(idx).idx
              ELSE /\ pc' = "wait_for_token"
                   /\ idx' = idx
    /\ UNCHANGED << limiterVars, history, history_file, playlist_cache, remote_playlists,
                    remote_videos, video_files, stats, video_id, playlist_id, create_if_not_exists, snap,
                    max_retries, retry_delay, up, ref, exit_code >>

\* lines 293-294 and 321: self.rate_limiter.wait_for_token()
WaitForToken ==
    /\ pc \in {"wait_for_token", "wait_for_token_attach"}
    /\ tokens' = wait_for_token(tokens, since_refill, max_requests_per_minute)
    /\ since_refill' = 0
    /\ calls' = Append(calls, Call("wait_for_token", idx, None, None))
    /\ pc' = IF pc = "wait_for_token" THEN "upload" ELSE "attach"
    /\ UNCHANGED << max_requests_per_minute, data_writable, now, quota_data, quota_file,
                    history, history_file, playlist_cache, remote_playlists, remote_videos,
                    video_files, idx, stats, video_id, playlist_id, create_if_not_exists,
                    snap, max_retries, retry_delay, up, ref, exit_code >>

\* lines 302-304: self.uploader.upload_video(...)
UploadVideo ==
    /\ pc = "upload"
    /\ \E r \in UploadOutcomes[File.valid], net \in NetSeconds :
              /\ video_id' = r.video_id
              /\ since_refill' = Min(SecondsPerMinute, since_refill + r.slept + net)
              /\ calls' = Append(calls, Call("upload_video", idx, None, r.video_id))
              /\ remote_videos' = IF r.video_id # None
                                  THEN [ remote_videos EXCEPT ![File.name] = @ + 1 ]
                                  ELSE remote_videos
    /\ playlist_id' = None
    /\ pc' = "uploaded"
    /\ UNCHANGED << max_requests_per_minute, data_writable, now, tokens, quota_data, quota_file,
                    history, history_file, playlist_cache, remote_playlists,
                    video_files, idx, stats, create_if_not_exists,
                    snap, max_retries, retry_delay, up, ref, exit_code >>

\* lines 306-308: on an id, consume_quota("video_upload", metadata.title)
ConsumeUpload ==
    /\ pc = "uploaded"
    /\ UploadSucceeded(video_id)
    /\ quota_data' = ConsumeLedger(quota_data, "video_upload", File.name)
    /\ quota_file' = save_quota_data(quota_data', quota_file, data_writable)
    /\ calls' = Append(calls, Call("consume_quota", idx, "video_upload", None))
    /\ pc' = IF File.playlist # None THEN "playlist" ELSE "record"
    /\ UNCHANGED << max_requests_per_minute, data_writable, now, tokens, since_refill,
                    history, history_file, playlist_cache, remote_playlists, remote_videos,
                    video_files, idx, stats, video_id, playlist_id, create_if_not_exists,
                    snap, max_retries, retry_delay, up, ref, exit_code >>

\* lines 350-353: no id, the file is counted failed
RecordFailure ==
    /\ pc = "uploaded"
    /\ ~UploadSucceeded(video_id)
    /\ stats' = [ stats EXCEPT !.failed = @ + 1,
                               !.videos = Append(@, [ filename |-> File.name,
                                                      status |-> "failed" ]) ]
    /\ idx' = idx + 1
    /\ pc' = "loop"
    /\ UNCHANGED << limiterVars, history, history_file, playlist_cache, remote_playlists,
                    remote_videos, video_files, video_id, playlist_id, create_if_not_exists, calls, snap,
                    max_retries, retry_delay, up, ref, exit_code >>

\* lines 312-318: get_or_create_playlist(metadata.playlist, ...)
GetOrCreatePlaylist ==
    /\ pc = "playlist"
    /\ \E list_ok \in BOOLEAN, create_ok \in BOOLEAN :
          LET r == get_or_create_playlist(playlist_cache, remote_playlists, File.playlist,
                                          create_if_not_exists, list_ok, create_ok)
          IN  /\ playlist_id' = r.id
              /\ playlist_cache' = r.cache
              /\ remote_playlists' = r.remote
              /\ calls' = calls \o ApiCalls(r.api, idx)
              /\ pc' = IF r.id # None THEN "wait_for_token_attach" ELSE "record"
    /\ UNCHANGED << limiterVars, history, history_file, remote_videos,
                    video_files, idx, stats, video_id, create_if_not_exists,
                    snap, max_retries, retry_delay, up, ref, exit_code >>

\* lines 323-333: add_video_to_playlist, and consume_quota when it is added
AddVideoToPlaylist ==
    /\ pc = "attach"
    /\ \E added \in BOOLEAN :
          IF AttachSucceeded(added)
          THEN /\ quota_data' = ConsumeLedger(quota_data, "playlist_insert", File.playlist)
               /\ quota_file' = save_quota_data(quota_data', quota_file, data_writable)
               /\ calls' = calls \o << Call("add_video_to_playlist", idx, None, added),
                                       Call("consume_quota", idx, "playlist_insert", None) >>
          ELSE /\ calls' = Append(calls, Call("add_video_to_playlist", idx, None, added))
               /\ UNCHANGED << quota_data, quota_file >>
    /\ pc' = "record"
    /\ UNCHANGED << max_requests_per_minute, data_writable, now, tokens, since_refill,
                    history, history_file, playlist_cache, remote_playlists, remote_videos,
                    video_files, idx, stats, video_id, playlist_id, create_if_not_exists,
                    snap, max_retries, retry_delay, up, ref, exit_code >>

\* lines 335-349: add_upload(..., status="completed") and the success count
RecordSuccess ==
    /\ pc = "record"
    /\ history' = add_upload(history, File.name, video_id, playlist_id, "completed")
    /\ history_file' = save_history(history', history_file, data_writable)
    /\ stats' = [ stats EXCEPT !.successful = @ + 1,
                               !.videos = Append(@, [ filename |-> File.name,
                                                      status |-> "success" ]) ]
    /\ idx' = idx + 1
    /\ pc' = "loop"
    /\ UNCHANGED << limiterVars, playlist_cache, remote_playlists, remote_videos,
                    video_files, video_id, playlist_id, create_if_not_exists, calls, snap,
                    max_retries, retry_delay, up, ref, exit_code >>

(***************************************************************************)
(* YouTubeUploader.run: what follows process_uploads.                      *)
(***************************************************************************)
\* process_uploads returns at line 262 for an empty queue, before lines
\* 355-356 give the statistics their "duration"; print_summary reads
\* stats['duration'] at line 369 and raises KeyError without it
print_summary_raises(files) == Len(files) = 0

\* a faulty variant of exit_status: a run with an upload made is a success
exit_status_of_successes(st) == IF st.successful > 0 \/ st.failed = 0 THEN 0 ELSE 1

\* line 419, `return 0 if stats["failed"] == 0 else 1`
exit_status(st) == IF st.failed = 0 THEN 0 ELSE 1

\* lines 411-431: print_summary, cleanup and the exit code; an exception of
\* print_summary is caught at line 427 and the run returns 1
Run ==
    /\ pc = "done"
    /\ exit_code = Running
    /\ exit_code' = << IF print_summary_raises(video_files) THEN 1 ELSE exit_status(stats) >>
    /\ UNCHANGED << limiterVars, history, history_file, playlist_cache, remote_playlists,
                    remote_videos, video_files, idx, pc, stats, video_id, playlist_id,
                    create_if_not_exists, calls, snap, max_retries, retry_delay, up, ref >>

(***************************************************************************)
(* The start of a run: a scanned queue, a ledger that is fresh or carries  *)
(* an earlier run's uploads, a full token bucket, a history of earlier     *)
(* uploads.                                                                *)
(***************************************************************************)
DailyQuotas == {1600, 1649, 1650, 3249, 3300}
RECURSIVE ConsumeTimes(_, _, _)
ConsumeTimes(qd, operation, n) ==
    IF n = 0 THEN qd
    ELSE ConsumeTimes(ConsumeLedger(qd, operation, "earlier"), operation, n - 1)

Ledgers ==
    { create_new_quota_data(d, 0) : d \in DailyQuotas }
      \cup { ConsumeTimes(create_new_quota_data(DefaultDailyQuota, 0), "video_upload",
                          5) }

\* a file of the queue: validate_video_file's verdict on it and the
\* playlist its metadata names; a file the history has is never looked at
FileKinds ==
    { [ valid |-> v, playlist |-> p, uploaded |-> FALSE ] :
          v \in BOOLEAN, p \in Titles \cup {None} }
      \cup { [ valid |-> TRUE, playlist |-> None, uploaded |-> TRUE ] }

Queue(kinds) ==
    [ i \in 1..Len(kinds) |->
        [ name |-> i, valid |-> kinds[i].valid, playlist |-> kinds[i].playlist ] ]

RECURSIVE EarlierHistory(_, _)
EarlierHistory(kinds, i) ==
    IF i > Len(kinds) THEN << >>
    ELSE (IF kinds[i].uploaded
          THEN << [ filename |-> i, video_id |-> "id", playlist_id |-> None,
                    status |-> "completed" ] >>
          ELSE << >>) \o EarlierHistory(kinds, i + 1)

Queues == UNION { [ 1..n -> FileKinds ] : n \in 0..MaxFiles }

\* The settings of a run.  They act on disjoint parts of the state (the
\* bucket, the files under ./data, the creation of playlists), so they are
\* varied together: the defaults of config_parser.py, and the smallest
\* bucket with an unwritable data directory and no creation of playlists.
Environments ==
    { [ capacity |-> 60, writable |-> TRUE,  create |-> TRUE ],
      [ capacity |-> 1,  writable |-> FALSE, create |-> FALSE ] }

Init ==
    /\ \E env \in Environments :
          /\ max_requests_per_minute = env.capacity
          /\ data_writable = env.writable
          /\ create_if_not_exists = env.create
    /\ tokens = max_requests_per_minute * TokenUnit
    /\ since_refill = 0
    /\ now = 0
    /\ quota_data \in Ledgers
    /\ quota_file = << json_dump(quota_data) >>
    /\ \E kinds \in Queues :
          /\ video_files = Queue(kinds)
          /\ history = EarlierHistory(kinds, 1)
          /\ remote_videos = [ i \in 1..Len(kinds) |-> IF kinds[i].uploaded THEN 1 ELSE 0 ]
    /\ history_file = history
    /\ playlist_cache = [ t \in Titles |-> None ]
    /\ remote_playlists \in [ Titles -> {0, 1} ]
    /\ idx = 1
    /\ pc = "loop"
    /\ stats = [ EmptyStats EXCEPT !.total = Len(video_files) ]
    /\ video_id = None
    /\ playlist_id = None
    /\ exit_code = Running
    /\ calls = << >>
    /\ snap = [ run |-> 1, start_remaining |-> quota_data.remaining_quota,
                start_history |-> history, file |-> 0,
                tokens |-> tokens, quota_data |-> quota_data, stats |-> stats,
                history |-> history, ncalls |-> 0 ]
    /\ max_retries = DEFAULT_MAX_RETRIES
    /\ retry_delay = DEFAULT_RETRY_DELAY
    /\ up = Idle
    /\ ref = Idle

Next ==
    \/ NextFile
    \/ CheckQuota
    \/ CheckPlaylistQuota
    \/ WaitForToken
    \/ UploadVideo
    \/ ConsumeUpload
    \/ RecordFailure
    \/ GetOrCreatePlaylist
    \/ AddVideoToPlaylist
    \/ RecordSuccess

Spec == Init /\ [][Next]_vars


(***************************************************************************)
(* Several runs of the program over the same videos directory, the same    *)
(* configuration and the same files under ./data: when run() has returned  *)
(* the program is started again.                                           *)
(***************************************************************************)
\* initialize_system (lines 169-190) and the head of process_uploads (lines
\* 236-258) in a new process: a new PlaylistManager, a RateLimiter and an
\* UploadHistory that load their files, and the directory scanned again
StartNextRun ==
    /\ pc = "done"
    /\ exit_code # Running
    /\ snap.run < MaxRuns
    /\ exit_code' = Running
    /\ playlist_cache' = [ t \in Titles |-> None ]
    /\ quota_data' = load_quota_data(quota_file, quota_data.daily_quota, now)
    /\ tokens' = max_requests_per_minute * TokenUnit
    /\ since_refill' = 0
    /\ history' = load_history(history_file)
    /\ idx' = 1
    /\ pc' = "loop"
    /\ stats' = [ EmptyStats EXCEPT !.total = Len(video_files) ]
    /\ video_id' = None
    /\ playlist_id' = None
    /\ calls' = << >>
    /\ snap' = [ run |-> snap.run + 1, start_remaining |-> quota_data'.remaining_quota,
                 start_history |-> history', file |-> 0,
                 tokens |-> tokens', quota_data |-> quota_data', stats |-> stats',
                 history |-> history', ncalls |-> 0 ]
    /\ UNCHANGED << max_requests_per_minute, quota_file, data_writable, now,
                    history_file, remote_playlists, remote_videos, video_files,
                    create_if_not_exists, max_retries, retry_delay, up, ref >>

RunQueues == UNION { [ 1..n -> FileKinds ] : n \in 1..MaxRunFiles }

InitRuns ==
    /\ \E env \in Environments :
          /\ max_requests_per_minute = env.capacity
          /\ data_writable = env.writable
          /\ create_if_not_exists = env.create
    /\ tokens = max_requests_per_minute * TokenUnit
    /\ since_refill = 0
    /\ now = 0
    /\ quota_data = create_new_quota_data(DefaultDailyQuota, now)
    /\ quota_file = NoFile
    /\ \E kinds \in RunQueues :
          /\ video_files = Queue(kinds)
          /\ history = EarlierHistory(kinds, 1)
          /\ remote_videos = [ i \in 1..Len(kinds) |-> IF kinds[i].uploaded THEN 1 ELSE 0 ]
    /\ history_file = history
    /\ playlist_cache = [ t \in Titles |-> None ]
    /\ remote_playlists = [ t \in Titles |-> 0 ]
    /\ idx = 1
    /\ pc = "loop"
    /\ stats = [ EmptyStats EXCEPT !.total = Len(video_files) ]
    /\ video_id = None
    /\ playlist_id = None
    /\ exit_code = Running
    /\ calls = << >>
    /\ snap = [ run |-> 1, start_remaining |-> quota_data.remaining_quota,
                start_history |-> history, file |-> 0,
                tokens |-> tokens, quota_data |-> quota_data, stats |-> stats,
                history |-> history, ncalls |-> 0 ]
    /\ max_retries = DEFAULT_MAX_RETRIES
    /\ retry_delay = DEFAULT_RETRY_DELAY
    /\ up = Idle
    /\ ref = Idle

NextRuns == Next \/ Run \/ StartNextRun

SpecRuns == InitRuns /\ [][NextRuns]_vars

(***************************************************************************)
(* A run that can be interrupted (KeyboardInterrupt): during the throttle  *)
(* wait, during the transfer and its backoff sleeps, and between two steps *)
(* of process_uploads.  No handler below run() catches KeyboardInterrupt   *)
(* (the clauses of upload_video, PlaylistManager and RateLimiter are       *)
(* `except Exception`), so it reaches lines 421-425 and run() returns 1.   *)
(***************************************************************************)
\* a faulty variant of InterruptedCall: the call is charged when it is cut
InterruptedCallCharged(qd, operation) == ConsumeLedger(qd, operation, "interrupted")

\* The ledger an API call leaves when it is interrupted: consume_quota is
\* the statement after the call (lines 302-308 and 323-328) and is not
\* reached
InterruptedCall(qd, operation) == qd

\* KeyboardInterrupt at the statement process_uploads is at
Interrupt ==
    /\ pc \notin {"done", "interrupted"}
    /\ exit_code = Running
    /\ pc' = "interrupted"
    /\ exit_code' = << 1 >>
    /\ CASE pc = "upload" ->
              \* in upload_video: the last chunk may have been received
              /\ \E landed \in {FALSE, File.valid} :
                    remote_videos' = IF landed
                                     THEN [ remote_videos EXCEPT ![File.name] = @ + 1 ]
                                     ELSE remote_videos
              /\ quota_data' = InterruptedCall(quota_data, "video_upload")
              /\ UNCHANGED << tokens, since_refill >>
         [] pc = "attach" ->
              /\ quota_data' = InterruptedCall(quota_data, "playlist_insert")
              /\ UNCHANGED << tokens, since_refill, remote_videos >>
         [] pc \in {"wait_for_token", "wait_for_token_attach"} ->
              \* in wait_for_token: refilled at line 126, asleep at line 131
              /\ tokens' = refill_tokens(tokens, since_refill, max_requests_per_minute)
              /\ since_refill' = 0
              /\ UNCHANGED << quota_data, remote_videos >>
         [] OTHER ->
              UNCHANGED << tokens, since_refill, quota_data, remote_videos >>
    /\ UNCHANGED << max_requests_per_minute, quota_file, data_writable, now,
                    history, history_file, playlist_cache, remote_playlists,
                    video_files, idx, stats, video_id, playlist_id, create_if_not_exists,
                    calls, snap, max_retries, retry_delay, up, ref >>

NextInterrupt == Next \/ Run \/ Interrupt

SpecInterrupt == InitRuns /\ [][NextInterrupt]_vars

(***************************************************************************)
(* A RateLimiter's ledger over several runs of the program: the limiter    *)
(* is constructed (the quota file is loaded), its ledger methods are       *)
(* called in any order, the process ends, the clock moves on.              *)
(***************************************************************************)
ClockHours == {7, 8, 9}
Moments == { d * HoursPerDay + h : d \in 0..MaxDays, h \in ClockHours }

\* quota_limit_per_day of the configuration, which may change between runs
LedgerQuotas == {1, 1650}

\* an operation type OPERATION_COSTS does not list
UnknownOperation == "comment_insert"
Operations == DOMAIN OPERATION_COSTS \cup {UnknownOperation}
ConsumedOperations == {"video_upload", "playlist_insert", "playlist_list", UnknownOperation}

\* the dictionaries given to can_perform_operations
Mappings ==
    UNION { [ S -> {1, 2} ] :
              S \in SUBSET {"video_upload", "playlist_insert", UnknownOperation} }

\* what the last call of a method was given, what it returned and the
\* ledger it found
LastCall(op, arg, result, before) ==
    [ op |-> op, arg |-> arg, result |-> result, before |-> before ]

NoLedger == create_new_quota_data(DefaultDailyQuota, 0)

\* The methods that only read the ledger.  One called after another finds
\* the limiter as the first found it, and `snap` keeps the last call only:
\* the state after the second is the state the second alone leads to, so
\* the model follows a reading call from the states other calls lead to.
Queries ==
    {"check_quota", "can_perform_operations", "estimate_operation_cost", "get_quota_status"}
CanQuery == pc = "up" /\ snap.op \notin Queries

LedgerFrame ==
    UNCHANGED << max_requests_per_minute, tokens, since_refill,
                 history, history_file, playlist_cache, remote_playlists, remote_videos,
                 video_files, idx, stats, video_id, playlist_id,
                 create_if_not_exists, calls, max_retries, retry_delay, up, ref, exit_code >>

\* what a call of the limiter leaves alone outside the limiter itself
LimiterFrame ==
    UNCHANGED << max_requests_per_minute, history, history_file, playlist_cache,
                 remote_playlists, remote_videos, video_files, idx, stats, video_id,
                 playlist_id, create_if_not_exists, calls, max_retries, retry_delay,
                 up, ref, exit_code >>

\* a faulty variant of SaveRaises: the failure of the write is not caught
SaveRaisesUncaught(write_ok) == ~write_ok

\* _save_quota_data, lines 103-108: does a failing write leave the method
\* as an exception?
SaveRaises(write_ok) == FALSE

\* a faulty variant of LoadRaises: a file that cannot be used ends the
\* construction
LoadRaisesUncaught(file) == file # NoFile /\ ~json_has(file[1], "reset_time")

\* _load_quota_data, lines 66-76: does an exception of open, json.load or
\* fromisoformat leave the method?
LoadRaises(file) == FALSE

\* RateLimiter(daily_quota=...): lines 48-61
Construct ==
    /\ pc = "down"
    /\ \E daily_quota \in LedgerQuotas :
          /\ quota_data' = load_quota_data(quota_file, daily_quota, now)
          /\ snap' = LastCall("load", daily_quota,
                              IF LoadRaises(quota_file) THEN "raised" ELSE "returned",
                              quota_file)
    /\ tokens' = max_requests_per_minute * TokenUnit
    /\ since_refill' = 0
    /\ pc' = "up"
    /\ UNCHANGED << quota_file, data_writable, now >>
    /\ LimiterFrame

\* check_quota(operation)
CheckQuotaCall ==
    /\ CanQuery
    /\ \E operation \in Operations :
          snap' = LastCall("check_quota", operation,
                           check_quota(quota_data, operation), quota_data)
    /\ UNCHANGED << pc, quota_data, quota_file, data_writable, now >>
    /\ LedgerFrame

\* can_perform_operations(operations)
CanPerformCall ==
    /\ CanQuery
    /\ \E operations \in Mappings :
          snap' = LastCall("can_perform_operations", operations,
                           can_perform_operations(quota_data, operations), quota_data)
    /\ UNCHANGED << pc, quota_data, quota_file, data_writable, now >>
    /\ LedgerFrame

\* estimate_operation_cost(operation)
EstimateCall ==
    /\ CanQuery
    /\ \E operation \in Operations :
          snap' = LastCall("estimate_operation_cost", operation,
                           estimate_operation_cost(operation), quota_data)
    /\ UNCHANGED << pc, quota_data, quota_file, data_writable, now >>
    /\ LedgerFrame

\* get_quota_status, lines 195-201 (without percentage_used, a quotient of
\* two of the fields below)
get_quota_status(qd) ==
    [ daily_quota |-> qd.daily_quota,
      used        |-> qd.used_quota,
      remaining   |-> qd.remaining_quota,
      reset_time  |-> qd.reset_time ]

\* get_quota_status()
GetQuotaStatusCall ==
    /\ CanQuery
    /\ snap' = LastCall("get_quota_status", None, get_quota_status(quota_data), quota_data)
    /\ UNCHANGED << pc, quota_data, quota_file, data_writable, now >>
    /\ LedgerFrame

\* a faulty variant of ThrottleCall: a token taken is charged to the ledger
\* as a listing is
ThrottleCallCharged ==
    /\ pc = "up"
    /\ tokens' = wait_for_token(tokens, since_refill, max_requests_per_minute)
    /\ since_refill' = 0
    /\ quota_data' = [ quota_data EXCEPT !.used_quota = @ + 1, !.remaining_quota = @ - 1 ]
    /\ snap' = LastCall("wait_for_token", None, None, quota_data)
    /\ UNCHANGED << pc, quota_file, data_writable, now >>
    /\ LimiterFrame

\* wait_for_token() of the limiter whose ledger is watched: lines 126-134
ThrottleCall ==
    /\ pc = "up"
    /\ tokens' = wait_for_token(tokens, since_refill, max_requests_per_minute)
    /\ since_refill' = 0
    /\ snap' = LastCall("wait_for_token", None, None, quota_data)
    /\ UNCHANGED << pc, quota_data, quota_file, data_writable, now >>
    /\ LimiterFrame

\* consume_quota(operation): lines 168-186
ConsumeCall ==
    /\ pc = "up"
    /\ Len(quota_data.operations) < MaxOperations
    /\ \E operation \in ConsumedOperations :
          /\ quota_data' = ConsumeLedger(quota_data, operation, None)
          /\ quota_file' = save_quota_data(quota_data', quota_file, data_writable)
          /\ snap' = LastCall("consume_quota", operation,
                              IF SaveRaises(data_writable) THEN "raised" ELSE "returned",
                              quota_data)
    /\ UNCHANGED << pc, data_writable, now >>
    /\ LedgerFrame

\* the process ends; the quota file stays
Shutdown ==
    /\ pc = "up"
    /\ pc' = "down"
    /\ quota_data' = NoLedger
    /\ snap' = LastCall("exit", None, None, NoLedger)
    /\ UNCHANGED << quota_file, data_writable, now >>
    /\ LedgerFrame

\* time passes between two runs
Tick ==
    /\ pc = "down"
    /\ \E t \in Moments : t > now /\ now' = t
    /\ UNCHANGED << pc, quota_data, quota_file, data_writable, snap >>
    /\ LedgerFrame

\* between two runs the quota file is damaged: a write cut short, or a
\* document that has lost its reset_time
DamageFile ==
    /\ pc = "down"
    /\ quota_file # NoFile
    /\ \E doc \in {Unreadable, json_without(quota_file[1], "reset_time")} :
          quota_file' = << doc >>
    /\ UNCHANGED << pc, quota_data, data_writable, now, snap >>
    /\ LedgerFrame

InitLedger ==
    /\ max_requests_per_minute = 1
    /\ tokens = max_requests_per_minute * TokenUnit
    /\ since_refill = 0
    /\ now \in ClockHours
    /\ quota_data = NoLedger
    /\ quota_file = NoFile
    /\ data_writable \in BOOLEAN
    /\ history = << >>
    /\ history_file = << >>
    /\ playlist_cache = << >>
    /\ remote_playlists = << >>
    /\ remote_videos = << >>
    /\ video_files = << >>
    /\ idx = 1
    /\ pc = "down"
    /\ stats = EmptyStats
    /\ video_id = None
    /\ playlist_id = None
    /\ exit_code = Running
    /\ create_if_not_exists = TRUE
    /\ calls = << >>
    /\ snap = LastCall("exit", None, None, NoLedger)
    /\ max_retries = DEFAULT_MAX_RETRIES
    /\ retry_delay = DEFAULT_RETRY_DELAY
    /\ up = Idle
    /\ ref = Idle

NextLedger ==
    \/ Construct
    \/ CheckQuotaCall
    \/ CanPerformCall
    \/ EstimateCall
    \/ GetQuotaStatusCall
    \/ ThrottleCall
    \/ ConsumeCall
    \/ Shutdown
    \/ Tick
    \/ DamageFile

SpecLedger == InitLedger /\ [][NextLedger]_vars

(***************************************************************************)
(* A RateLimiter's token bucket: wait_for_token is called again and again  *)
(* while the clock moves on.                                               *)
(***************************************************************************)
\* max_requests_per_minute of the configuration (1..100); the model's
\* arithmetic is exact for the values that divide 60
Capacities == {1, 2, 60}

\* seconds that pass between two calls
Seconds == {1, 30}

\* what the last wait_for_token found after its first refill, and how long
\* it slept
BucketCall(op, refilled, slept) == [ op |-> op, refilled |-> refilled, slept |-> slept ]

BucketFrame ==
    UNCHANGED << quota_data, quota_file, data_writable, now,
                 history, history_file, playlist_cache, remote_playlists, remote_videos,
                 video_files, idx, pc, stats, video_id, playlist_id,
                 create_if_not_exists, calls, max_retries, retry_delay, up, ref, exit_code >>

\* wait_for_token(): lines 126-134
WaitForTokenCall ==
    /\ pc = "bucket"
    /\ LET refilled == refill_tokens(tokens, since_refill, max_requests_per_minute)
       IN  /\ tokens' = wait_for_token(tokens, since_refill, max_requests_per_minute)
           /\ snap' = BucketCall("wait_for_token", refilled,
                                 SleptForToken(refilled, max_requests_per_minute))
    /\ since_refill' = 0
    /\ UNCHANGED max_requests_per_minute
    /\ BucketFrame

\* time.time() moves on between two calls; a minute fills any bucket
ClockAdvances ==
    /\ pc = "bucket"
    /\ since_refill < SecondsPerMinute
    /\ \E s \in Seconds : since_refill' = Min(SecondsPerMinute, since_refill + s)
    /\ UNCHANGED << max_requests_per_minute, tokens, snap >>
    /\ BucketFrame

InitBucket ==
    /\ max_requests_per_minute \in Capacities
    /\ tokens = max_requests_per_minute * TokenUnit
    /\ since_refill = 0
    /\ now = 0
    /\ quota_data = NoLedger
    /\ quota_file = NoFile
    /\ data_writable = TRUE
    /\ history = << >>
    /\ history_file = << >>
    /\ playlist_cache = << >>
    /\ remote_playlists = << >>
    /\ remote_videos = << >>
    /\ video_files = << >>
    /\ idx = 1
    /\ pc = "bucket"
    /\ stats = EmptyStats
    /\ video_id = None
    /\ playlist_id = None
    /\ exit_code = Running
    /\ create_if_not_exists = TRUE
    /\ calls = << >>
    /\ snap = BucketCall("init", tokens, 0)
    /\ max_retries = DEFAULT_MAX_RETRIES
    /\ retry_delay = DEFAULT_RETRY_DELAY
    /\ up = Idle
    /\ ref = Idle

NextBucket == WaitForTokenCall \/ ClockAdvances

SpecBucket == InitBucket /\ [][NextBucket]_vars

(***************************************************************************)
(* The token bucket watched over windows of time: one caller, a clock that *)
(* moves on between the calls and while a call sleeps.  `calls` holds what *)
(* is watched: whether a window is open, the seconds since it was opened   *)
(* and the wait_for_token calls that have returned in it, and the calls    *)
(* made back to back since the RateLimiter was constructed (-1 once time   *)
(* has passed between two calls, or one more than the capacity were made). *)
(***************************************************************************)
\* max_requests_per_minute of the limiters that are watched
WindowCapacities == {1, 2, 3}

\* seconds that pass between two calls
WindowSeconds == {10, 30}

NoWindow == [ open |-> FALSE, elapsed |-> 0, returned |-> 0 ]

\* the window after `seconds` more seconds and `returns` more calls
Watched(window, seconds, returns) ==
    IF ~window.open THEN window
    ELSE IF window.elapsed + seconds > MaxWindow THEN NoWindow
    ELSE [ window EXCEPT !.elapsed = @ + seconds, !.returned = @ + returns ]

WindowFrame ==
    UNCHANGED << quota_data, quota_file, data_writable, now,
                 history, history_file, playlist_cache, remote_playlists, remote_videos,
                 video_files, idx, pc, stats, video_id, playlist_id,
                 create_if_not_exists, max_retries, retry_delay, up, ref, exit_code >>

\* wait_for_token(): lines 126-134
WindowCall ==
    /\ pc = "window"
    /\ LET refilled == refill_tokens(tokens, since_refill, max_requests_per_minute)
           slept == SleptForToken(refilled, max_requests_per_minute)
       IN  /\ tokens' = wait_for_token(tokens, since_refill, max_requests_per_minute)
           /\ snap' = BucketCall("wait_for_token", refilled, slept)
           /\ calls' = [ window |-> Watched(calls.window, slept, 1),
                         back_to_back |->
                            IF calls.back_to_back \in 0..max_requests_per_minute
                            THEN calls.back_to_back + 1 ELSE -1 ]
    /\ since_refill' = 0
    /\ UNCHANGED max_requests_per_minute
    /\ WindowFrame

\* time.time() moves on between two calls
WindowClockAdvances ==
    /\ pc = "window"
    /\ since_refill < SecondsPerMinute
    /\ \E s \in WindowSeconds :
          /\ since_refill' = Min(SecondsPerMinute, since_refill + s)
          /\ calls' = [ window |-> Watched(calls.window, s, 0), back_to_back |-> -1 ]
    /\ UNCHANGED << max_requests_per_minute, tokens, snap >>
    /\ WindowFrame

\* a window of time begins
OpenWindow ==
    /\ pc = "window"
    /\ ~calls.window.open
    /\ calls' = [ calls EXCEPT !.window = [ open |-> TRUE, elapsed |-> 0, returned |-> 0 ] ]
    /\ UNCHANGED << max_requests_per_minute, tokens, since_refill, snap >>
    /\ WindowFrame

InitWindow ==
    /\ max_requests_per_minute \in WindowCapacities
    /\ tokens = max_requests_per_minute * TokenUnit
    /\ since_refill = 0
    /\ now = 0
    /\ quota_data = NoLedger
    /\ quota_file = NoFile
    /\ data_writable = TRUE
    /\ history = << >>
    /\ history_file = << >>
    /\ playlist_cache = << >>
    /\ remote_playlists = << >>
    /\ remote_videos = << >>
    /\ video_files = << >>
    /\ idx = 1
    /\ pc = "window"
    /\ stats = EmptyStats
    /\ video_id = None
    /\ playlist_id = None
    /\ exit_code = Running
    /\ create_if_not_exists = TRUE
    /\ calls = [ window |-> NoWindow, back_to_back |-> 0 ]
    /\ snap = BucketCall("init", tokens, 0)
    /\ max_retries = DEFAULT_MAX_RETRIES
    /\ retry_delay = DEFAULT_RETRY_DELAY
    /\ up = Idle
    /\ ref = Idle

NextWindow == WindowCall \/ WindowClockAdvances \/ OpenWindow

SpecWindow == InitWindow /\ [][NextWindow]_vars

(***************************************************************************)
(* Several uploaders, threads of one process, that share one RateLimiter   *)
(* (upload.concurrent_uploads of the configuration goes up to 5).  Each    *)
(* runs lines 279-308 of process_uploads for a file of its own:            *)
(* check_quota, wait_for_token, upload_video, consume_quota.  RateLimiter  *)
(* holds no lock, so the threads interleave between the statements of its  *)
(* methods, and inside the augmented assignments of lines 134, 170 and     *)
(* 171, which load the value and store the result in separate bytecodes.   *)
(*                                                                         *)
(* pc[t] is the statement thread t is at, snap.local[t] its local          *)
(* variables, snap.clock is time.time() and snap.last_refill               *)
(* self.last_refill, in seconds.  Time passes while a thread sleeps.       *)
(***************************************************************************)
Threads == 1..MaxThreads

ThreadQuotas == {1600, 3200}

NoLocals == [ now |-> 0, elapsed |-> 0, loaded |-> 0, video_id |-> None ]

ThreadFrame ==
    UNCHANGED << max_requests_per_minute, data_writable, now,
                 history, history_file, playlist_cache, remote_playlists, remote_videos,
                 video_files, idx, stats, video_id, playlist_id, create_if_not_exists,
                 exit_code, max_retries, retry_delay, up, ref >>

Goto(t, label) == pc' = [ pc EXCEPT ![t] = label ]

\* main.py lines 279-282 and check_quota, lines 146-158
ThreadCheckQuota(t) ==
    /\ pc[t] = "check_quota"
    /\ Goto(t, IF check_quota(quota_data, "video_upload") THEN "refill" ELSE "stopped")
    /\ UNCHANGED << tokens, since_refill, quota_data, quota_file, calls, snap >>
    /\ ThreadFrame

\* _refill_tokens, lines 112-116: now, elapsed and tokens_to_add
ThreadRefillElapsed(t) ==
    /\ pc[t] = "refill"
    /\ snap' = [ snap EXCEPT !.local[t].now = snap.clock,
                             !.local[t].elapsed = snap.clock - snap.last_refill ]
    /\ Goto(t, "refill_store")
    /\ UNCHANGED << tokens, since_refill, quota_data, quota_file, calls >>
    /\ ThreadFrame

\* _refill_tokens, lines 117-118: self.tokens and self.last_refill
ThreadRefillStore(t) ==
    /\ pc[t] = "refill_store"
    /\ tokens' = refill_tokens(tokens, snap.local[t].elapsed, max_requests_per_minute)
    /\ since_refill' = snap.clock - snap.local[t].now
    /\ snap' = [ snap EXCEPT !.last_refill = snap.local[t].now,
                             !.refilled = @ + (tokens' - tokens) ]
    /\ Goto(t, "while")
    /\ UNCHANGED << quota_data, quota_file, calls >>
    /\ ThreadFrame

\* wait_for_token, line 128: `while self.tokens < 1`
ThreadTestTokens(t) ==
    /\ pc[t] = "while"
    /\ Goto(t, IF tokens < TokenUnit THEN "sleep" ELSE "take")
    /\ UNCHANGED << tokens, since_refill, quota_data, quota_file, calls, snap >>
    /\ ThreadFrame

\* wait_for_token, lines 129-131: time.sleep(wait_time)
ThreadSleep(t) ==
    /\ pc[t] = "sleep"
    /\ LET seconds == wait_time(tokens, max_requests_per_minute)
       IN  /\ snap' = [ snap EXCEPT !.clock = @ + seconds ]
           /\ since_refill' = since_refill + seconds
    /\ Goto(t, "refill")
    /\ UNCHANGED << tokens, quota_data, quota_file, calls >>
    /\ ThreadFrame

\* wait_for_token, line 134, `self.tokens -= 1`: the value is loaded
ThreadTakeLoad(t) ==
    /\ pc[t] = "take"
    /\ snap' = [ snap EXCEPT !.local[t].loaded = tokens ]
    /\ Goto(t, "take_store")
    /\ UNCHANGED << tokens, since_refill, quota_data, quota_file, calls >>
    /\ ThreadFrame

\* line 134: the result is stored, and wait_for_token returns
ThreadTakeStore(t) ==
    /\ pc[t] = "take_store"
    /\ tokens' = snap.local[t].loaded - TokenUnit
    /\ snap' = [ snap EXCEPT !.returned = @ + 1 ]
    /\ Goto(t, "upload")
    /\ UNCHANGED << since_refill, quota_data, quota_file, calls >>
    /\ ThreadFrame

\* main.py lines 302-306: upload_video returns an id, or None
ThreadUpload(t) ==
    /\ pc[t] = "upload"
    /\ \E vid \in {"id", None} :
          /\ snap' = [ snap EXCEPT !.local[t].video_id = vid ]
          /\ Goto(t, IF UploadSucceeded(vid) THEN "used" ELSE "failed")
    /\ UNCHANGED << tokens, since_refill, quota_data, quota_file, calls >>
    /\ ThreadFrame

\* consume_quota, line 170, `self.quota_data["used_quota"] += cost`: the
\* value is loaded
ThreadUsedLoad(t) ==
    /\ pc[t] = "used"
    /\ snap' = [ snap EXCEPT !.local[t].loaded = quota_data.used_quota ]
    /\ Goto(t, "used_store")
    /\ UNCHANGED << tokens, since_refill, quota_data, quota_file, calls >>
    /\ ThreadFrame

\* line 170: the result is stored
ThreadUsedStore(t) ==
    /\ pc[t] = "used_store"
    /\ quota_data' = [ quota_data EXCEPT !.used_quota =
                          snap.local[t].loaded + estimate_operation_cost("video_upload") ]
    /\ Goto(t, "remaining")
    /\ UNCHANGED << tokens, since_refill, quota_file, calls, snap >>
    /\ ThreadFrame

\* consume_quota, line 171, `self.quota_data["remaining_quota"] -= cost`:
\* the value is loaded
ThreadRemainingLoad(t) ==
    /\ pc[t] = "remaining"
    /\ snap' = [ snap EXCEPT !.local[t].loaded = quota_data.remaining_quota ]
    /\ Goto(t, "remaining_store")
    /\ UNCHANGED << tokens, since_refill, quota_data, quota_file, calls >>
    /\ ThreadFrame

\* line 171: the result is stored
ThreadRemainingStore(t) ==
    /\ pc[t] = "remaining_store"
    /\ quota_data' = [ quota_data EXCEPT !.remaining_quota =
                          snap.local[t].loaded - estimate_operation_cost("video_upload") ]
    /\ Goto(t, "record")
    /\ UNCHANGED << tokens, since_refill, quota_file, calls, snap >>
    /\ ThreadFrame

\* consume_quota, lines 173-186: the record is appended and the file saved
ThreadRecordAndSave(t) ==
    /\ pc[t] = "record"
    /\ quota_data' = [ quota_data EXCEPT !.operations =
                          Append(@, [ type    |-> "video_upload",
                                      cost    |-> estimate_operation_cost("video_upload"),
                                      details |-> t ]) ]
    /\ quota_file' = save_quota_data(quota_data', quota_file, data_writable)
    /\ calls' = Append(calls, Call("consume_quota", t, "video_upload", None))
    /\ Goto(t, "succeeded")
    /\ UNCHANGED << tokens, since_refill, snap >>
    /\ ThreadFrame

InitThreads ==
    /\ max_requests_per_minute = 1
    /\ tokens = max_requests_per_minute * TokenUnit
    /\ since_refill = 0
    /\ now = 0
    /\ \E daily_quota \in ThreadQuotas :
          quota_data = create_new_quota_data(daily_quota, now)
    /\ quota_file = NoFile
    /\ data_writable = TRUE
    /\ history = << >>
    /\ history_file = << >>
    /\ playlist_cache = << >>
    /\ remote_playlists = << >>
    /\ remote_videos = << >>
    /\ video_files = << >>
    /\ idx = 1
    /\ pc = [ t \in Threads |-> "check_quota" ]
    /\ stats = EmptyStats
    /\ video_id = None
    /\ playlist_id = None
    /\ exit_code = Running
    /\ create_if_not_exists = TRUE
    /\ calls = << >>
    /\ snap = [ clock |-> 0, last_refill |-> 0, start_tokens |-> tokens,
                refilled |-> 0, returned |-> 0,
                local |-> [ t \in Threads |-> NoLocals ] ]
    /\ max_retries = DEFAULT_MAX_RETRIES
    /\ retry_delay = DEFAULT_RETRY_DELAY
    /\ up = Idle
    /\ ref = Idle

NextThreads ==
    \E t \in Threads :
        \/ ThreadCheckQuota(t)
        \/ ThreadRefillElapsed(t)
        \/ ThreadRefillStore(t)
        \/ ThreadTestTokens(t)
        \/ ThreadSleep(t)
        \/ ThreadTakeLoad(t)
        \/ ThreadTakeStore(t)
        \/ ThreadUpload(t)
        \/ ThreadUsedLoad(t)
        \/ ThreadUsedStore(t)
        \/ ThreadRemainingLoad(t)
        \/ ThreadRemainingStore(t)
        \/ ThreadRecordAndSave(t)

SpecThreads == InitThreads /\ [][NextThreads]_vars

(***************************************************************************)
(* Claims about process_uploads (checked under Spec).                      *)
(***************************************************************************)

\* the file last taken from the queue has been dealt with: the loop is back
\* at its head, or has ended, past that file
Handled == pc \in {"loop", "done"} /\ snap.file >= 1 /\ idx = snap.file + 1

HandledFile == video_files[snap.file]

\* the positions in `calls` of the calls made for the file last taken
CallsOfFile == (snap.ncalls + 1)..Len(calls)

InHistory(uploads, name) ==
    \E j \in 1..Len(uploads) :
        uploads[j].filename = name /\ uploads[j].status = "completed"

UploadReturned(k) == calls[k].op = "upload_video"

Consumed(k, operation) == calls[k].op = "consume_quota" /\ calls[k].arg = operation

\* C1: consume_quota('video_upload') is called for a file only directly
\* after upload_video returned an id for that file, and a file whose upload
\* returned no id leaves the ledger (used, remaining, operations) as it was.
C1_QuotaConsumedOnlyAfterSuccess ==
    /\ \A k \in 1..Len(calls) :
          Consumed(k, "video_upload")
            => /\ k > 1
               /\ UploadReturned(k - 1)
               /\ calls[k - 1].file = calls[k].file
               /\ calls[k - 1].result # None
    /\ (Handled /\ \E k \in CallsOfFile : UploadReturned(k) /\ calls[k].result = None)
          => quota_data = snap.quota_data

C1_Witness ==
    /\ Handled
    /\ HandledFile.valid
    /\ \E k \in CallsOfFile : UploadReturned(k) /\ calls[k].result = None
    /\ stats.failed = snap.stats.failed + 1
    /\ snap.quota_data.used_quota > 0

\* C2: once check_quota('video_upload') or can_perform_operations(...) has
\* returned false, the run makes no further call at all (no wait_for_token,
\* upload_video, add_video_to_playlist or consume_quota): the loop is over.
C2_FailedPreflightEndsTheBatch ==
    \A k \in 1..Len(calls) :
        (calls[k].op \in {"check_quota", "can_perform_operations"} /\ ~calls[k].result)
          => (k = Len(calls) /\ pc = "done")

C2_Witness ==
    /\ pc = "done"
    /\ idx < Len(video_files)
    /\ stats.successful >= 1
    /\ Len(calls) > 0
    /\ calls[Len(calls)].op = "can_perform_operations"
    /\ ~calls[Len(calls)].result

\* C3: a queue of N files, none in the history, none with a playlist, all
\* of whose uploads succeed, started with R units remaining, ends with
\* min(N, R div 1600) uploads made and counted successful, none failed,
\* none skipped, and 1600 units consumed for each.
C3_UploadsUntilQuotaRunsOut ==
    ( /\ pc = "done"
      /\ \A i \in 1..Len(video_files) :
            /\ video_files[i].playlist = None
            /\ ~InHistory(snap.start_history, video_files[i].name)
      /\ \A k \in 1..Len(calls) : UploadReturned(k) => calls[k].result # None )
    => LET N == Len(video_files)
           R == snap.start_remaining
           n == IF N <= R \div 1600 THEN N ELSE R \div 1600
       IN  /\ stats.successful = n
           /\ stats.failed = 0
           /\ stats.skipped = 0
           /\ Cardinality({ k \in 1..Len(calls) : UploadReturned(k) }) = n
           /\ quota_data.remaining_quota = R - 1600 * n
           /\ idx = n + 1

C3_Witness ==
    /\ pc = "done"
    /\ Len(video_files) = 3
    /\ snap.start_remaining = 2000
    /\ \A i \in 1..3 : video_files[i].playlist = None /\ video_files[i].valid
    /\ snap.start_history = << >>
    /\ stats.successful = 1
    /\ quota_data.remaining_quota = 400
    /\ idx = 2

\* C4: a file that fails validation is rejected before any quota check and
\* before the throttle: after process_uploads has dealt with it, no
\* check_quota call was made for it and ledger and tokens are as before.
C4_InvalidFileTouchesNothing ==
    (Handled /\ ~HandledFile.valid /\ ~InHistory(snap.history, HandledFile.name))
      => /\ \A k \in CallsOfFile : calls[k].op # "check_quota"
         /\ quota_data = snap.quota_data
         /\ tokens = snap.tokens

\* C5: for a file the history records as completed, process_uploads makes
\* no call at all (no check_quota, can_perform_operations, wait_for_token,
\* upload_video, consume_quota) and changes only the skipped counter.
C5_UploadedFileIsOnlyCounted ==
    (Handled /\ InHistory(snap.history, HandledFile.name))
      => /\ CallsOfFile = {}
         /\ quota_data = snap.quota_data
         /\ tokens = snap.tokens
         /\ history = snap.history
         /\ stats = [ snap.stats EXCEPT !.skipped = @ + 1 ]

C5_Witness ==
    /\ Handled
    /\ InHistory(snap.history, HandledFile.name)
    /\ stats.skipped = 1
    /\ stats.successful = 1

\* C6: 'playlist_insert' is consumed exactly when add_video_to_playlist
\* returned true; a file whose upload succeeded and whose requested attach
\* did not is counted successful, recorded completed, and charged the
\* 'video_upload' cost only.
C6_AttachFailureKeepsTheUpload ==
    /\ \A k \in 1..Len(calls) :
          /\ Consumed(k, "playlist_insert")
               => /\ k > 1
                  /\ calls[k - 1].op = "add_video_to_playlist"
                  /\ calls[k - 1].file = calls[k].file
                  /\ calls[k - 1].result
          /\ (calls[k].op = "add_video_to_playlist" /\ calls[k].result)
               => /\ k < Len(calls)
                  /\ Consumed(k + 1, "playlist_insert")
    /\ ( /\ Handled
         /\ HandledFile.playlist # None
         /\ \E k \in CallsOfFile : UploadReturned(k) /\ calls[k].result # None
         /\ \A k \in CallsOfFile : calls[k].op = "add_video_to_playlist" => ~calls[k].result )
       => /\ stats.successful = snap.stats.successful + 1
          /\ stats.failed = snap.stats.failed
          /\ InHistory(history, HandledFile.name)
          /\ quota_data.used_quota = snap.quota_data.used_quota + 1600
          /\ quota_data.remaining_quota = snap.quota_data.remaining_quota - 1600
          /\ \A k \in CallsOfFile : ~Consumed(k, "playlist_insert")

C6_Witness ==
    /\ Handled
    /\ HandledFile.playlist # None
    /\ \E k \in CallsOfFile : calls[k].op = "add_video_to_playlist" /\ ~calls[k].result
    /\ stats.successful = snap.stats.successful + 1
    /\ InHistory(history, HandledFile.name)

\* the loop has taken file i from the queue: it was skipped, as the history
\* has it, or check_quota was called for it
Processed(i) ==
    \/ InHistory(history, video_files[i].name)
    \/ \E k \in 1..Len(calls) : calls[k].op = "check_quota" /\ calls[k].file = i

\* C21: upload_video returns an id exactly when the transfer ended with a
\* response carrying an id, and None (no exception) after a failed
\* validation, a terminal transport error and a response without an id;
\* after a file is counted failed the loop goes on to the next file.
C21_FailureDoesNotEndTheBatch ==
    /\ \A valid \in BOOLEAN : \A r \in UploadEndings[valid] :
          r.video_id # None <=> r.ended = "response_with_id"
    /\ \A k \in 1..Len(calls) :
          UploadReturned(k)
            => \E r \in UploadEndings[video_files[calls[k].file].valid] :
                  r.video_id = calls[k].result
    /\ \A j \in 1..Len(stats.videos) :
          (stats.videos[j].status = "failed" /\ stats.videos[j].filename < Len(video_files))
            => LET next == stats.videos[j].filename + 1
               IN  \/ idx = next /\ pc # "done"
                   \/ Processed(next)

C21_Witness ==
    /\ pc = "done"
    /\ Len(stats.videos) = 3
    /\ stats.videos[1].status = "failed"
    /\ stats.videos[2].status = "failed"
    /\ stats.videos[3].status = "success"
    /\ \A i \in 1..2 : \E k \in 1..Len(calls) :
          UploadReturned(k) /\ calls[k].file = i /\ calls[k].result = None
    /\ video_files[1].valid /\ ~video_files[2].valid
    /\ { r.ended : r \in UploadEndings[TRUE] } =
          { "response_with_id", "response_without_id", "raised", "no_progress_columns" }
    /\ { r.ended : r \in UploadEndings[FALSE] } = { "invalid" }

\* C35: in a run of process_uploads that starts with remaining_quota >= 0,
\* remaining_quota is >= 0 after every step, whatever the queue, the
\* playlists of its files and the outcomes of the uploads and attaches.
C35_RemainingQuotaStaysNonNegative ==
    snap.start_remaining >= 0 => quota_data.remaining_quota >= 0

C35_Witness ==
    /\ snap.start_remaining = 1650
    /\ quota_data.remaining_quota = 0
    /\ Len(quota_data.operations) = 2
    /\ quota_data.operations[2].type = "playlist_insert"
    /\ pc = "done"
    /\ idx = 2
    /\ Len(video_files) = 3

\* C34: over the get_or_create_playlist calls of a run, also those whose
\* listing request fails, a playlist is created only for a title no
\* playlist of the account has: no title is held by two playlists.
C34_NoSecondPlaylistOfATitle ==
    \A title \in Titles : remote_playlists[title] <= 1

(***************************************************************************)
(* Claims about several runs of the program (checked under SpecRuns).      *)
(***************************************************************************)

\* C22: when no exception reaches the handlers of run(), run() returns 0
\* if and only if no file of the batch was counted failed, and 1 otherwise.
C22_ExitStatusTellsOfFailures ==
    (exit_code # Running /\ ~print_summary_raises(video_files))
      => /\ exit_code[1] \in {0, 1}
         /\ exit_code[1] = 0 <=> stats.failed = 0
         /\ exit_code[1] = 0
               <=> \A j \in 1..Len(stats.videos) : stats.videos[j].status # "failed"

C22_Witness ==
    /\ exit_code = << 1 >>
    /\ snap.run = 2
    /\ stats.failed = 1
    /\ stats.successful = 1
    /\ stats.videos[1].status = "failed"

\* the calls of process_uploads that send requests to the remote service
ApiOperations == {"upload_video", "playlists_list", "playlists_insert", "add_video_to_playlist"}

\* C24: every remote API operation made for a file (the upload, the
\* playlist listing, the playlist creation, the attach) has its own
\* wait_for_token call before it, with no other API operation between the
\* two, and every wait_for_token call is followed by an API operation.
C24_TokenBeforeEveryApiCall ==
    /\ \A k \in 1..Len(calls) :
          calls[k].op \in ApiOperations
            => \E j \in 1..(k - 1) :
                  /\ calls[j].op = "wait_for_token"
                  /\ \A m \in (j + 1)..(k - 1) :
                        calls[m].op \notin ApiOperations \cup {"wait_for_token"}
    /\ \A j \in 1..Len(calls) :
          (calls[j].op = "wait_for_token" /\ j < Len(calls))
            => calls[j + 1].op \in ApiOperations

\* C25: once process_uploads has dealt with a file, whether its upload
\* succeeded or failed or the file was skipped, the upload history holds a
\* record of that file.
C25_EveryOutcomeIsInTheHistory ==
    Handled => \E j \in 1..Len(history) : history[j].filename = HandledFile.name

\* C23: over runs that share a history file whose writes succeed, no file
\* name is uploaded successfully more than once, and once the loop has
\* dealt with a file whose upload succeeded, is_uploaded is true of it, in
\* this run and, from the file, in the next.
C23_HistoryPreventsDuplicates ==
    data_writable
      => /\ \A i \in 1..Len(video_files) : remote_videos[i] <= 1
         /\ (Handled /\ \E k \in CallsOfFile : UploadReturned(k) /\ calls[k].result # None)
               => /\ is_uploaded(history, HandledFile.name)
                  /\ is_uploaded(load_history(history_file), HandledFile.name)
         /\ \A i \in 1..Len(video_files) :
               remote_videos[i] = 1
                 => \/ is_uploaded(history, video_files[i].name)
                    \/ idx = i /\ pc \in {"uploaded", "playlist", "wait_for_token_attach",
                                           "attach", "record"}

C23_Witness ==
    /\ data_writable
    /\ snap.run = 2
    /\ pc = "done"
    /\ Len(video_files) = 2
    /\ stats.skipped = 1
    /\ stats.successful = 1
    /\ snap.start_history # << >>
    /\ \A i \in 1..2 : remote_videos[i] = 1 /\ video_files[i].valid

(***************************************************************************)
(* Claims about an interrupted run (checked under SpecInterrupt).          *)
(***************************************************************************)

\* the upload of the file the loop is at has returned an id
UploadCompleted ==
    \E k \in CallsOfFile : UploadReturned(k) /\ calls[k].result # None

ConsumeCalls == { k \in 1..Len(calls) : calls[k].op = "consume_quota" }

Called(op) == pc = "up" /\ snap.op = op

\* the cost table as the claims read it
CostOf(operation) ==
    CASE operation \in {"video_upload", "video_insert"}       -> 1600
      [] operation \in {"playlist_create", "playlist_insert"} -> 50
      [] operation \in {"playlist_list", "video_list"}        -> 1
      [] OTHER                                                 -> 0

CountOf(operations, op) == IF op \in DOMAIN operations THEN operations[op] ELSE 0

\* the total of a mapping over the operation types the mappings use
TotalOf(operations) ==
    CostOf("video_upload") * CountOf(operations, "video_upload")
      + CostOf("playlist_insert") * CountOf(operations, "playlist_insert")
      + CostOf(UnknownOperation) * CountOf(operations, UnknownOperation)

\* C11: for an operation type of positive cost C and a remaining quota R,
\* check_quota returns true if and only if C <= R.
C11_CheckQuotaIffCostFits ==
    (Called("check_quota") /\ CostOf(snap.arg) > 0)
      => (snap.result <=> CostOf(snap.arg) <= snap.before.remaining_quota)

C11_Witness ==
    /\ Called("check_quota")
    /\ snap.arg = "video_upload"
    /\ snap.before.remaining_quota = 1600
    /\ snap.before.daily_quota = 1650
    /\ snap.result

\* C12: can_perform_operations returns true if and only if the sum of
\* cost(op) * count over the mapping, unknown types counting 0, is at most
\* the remaining quota; for {op: 1} it returns what check_quota(op) returns.
C12_CanPerformIffTotalFits ==
    Called("can_perform_operations")
      => /\ snap.result <=> TotalOf(snap.arg) <= snap.before.remaining_quota
         /\ \A op \in DOMAIN snap.arg :
               (DOMAIN snap.arg = {op} /\ snap.arg[op] = 1)
                 => (snap.result <=> check_quota(snap.before, op))

C12_Witness ==
    /\ Called("can_perform_operations")
    /\ DOMAIN snap.arg = {"video_upload", "playlist_insert", UnknownOperation}
    /\ TotalOf(snap.arg) = snap.before.remaining_quota
    /\ snap.result

\* C13: consume_quota(op) adds cost(op) to used_quota and takes cost(op)
\* from remaining_quota, however little remains, so that their sum is kept.
C13_ConsumeMovesCostFromRemainingToUsed ==
    Called("consume_quota")
      => /\ quota_data.used_quota = snap.before.used_quota + CostOf(snap.arg)
         /\ quota_data.remaining_quota = snap.before.remaining_quota - CostOf(snap.arg)
         /\ quota_data.used_quota + quota_data.remaining_quota
               = snap.before.used_quota + snap.before.remaining_quota

C13_Witness ==
    /\ Called("consume_quota")
    /\ CostOf(snap.arg) > snap.before.remaining_quota
    /\ snap.before.used_quota > 0
    /\ quota_data.remaining_quota < 0

\* C14: in every state of a constructed RateLimiter, whether its ledger was
\* created, reset or loaded, used_quota + remaining_quota is the ledger's
\* daily_quota.
C14_UsedPlusRemainingIsDailyQuota ==
    pc = "up" => quota_data.used_quota + quota_data.remaining_quota = quota_data.daily_quota

C14_Witness ==
    /\ Called("consume_quota")
    /\ quota_data.daily_quota # 1
    /\ quota_data.reset_time < now
    /\ Len(quota_data.operations) = 2
    /\ snap.before.used_quota > 0

\* the construction that has just happened found a ledger in the file
Loaded == Called("load") /\ snap.before # NoFile /\ json_has(snap.before[1], "reset_time")

StoredResetTime == json_member(snap.before[1], "reset_time")

\* C15: a RateLimiter constructed when the stored reset_time is earlier
\* than the current time starts with used_quota = 0 and remaining_quota =
\* daily_quota, also when the reset_time is earlier on the same day.
C15_PastResetTimeResetsTheLedger ==
    (Loaded /\ StoredResetTime < now)
      => /\ quota_data.used_quota = 0
         /\ quota_data.remaining_quota = quota_data.daily_quota
         /\ quota_data.operations = << >>

\* the construction that has just happened reset the ledger it found
ResetOnLoad == Loaded /\ StoredResetTime \div 24 < now \div 24

\* C16 as stated: after a reset on load the new reset_time is one day after
\* the stored one, at 08:00 UTC.
C16_ResetTimeAdvancesByOneDay ==
    ResetOnLoad
      => /\ quota_data.reset_time = StoredResetTime + 24
         /\ quota_data.reset_time % 24 = 8

\* C16 as amended: after a reset on load the new reset_time is the first
\* 08:00 UTC after the time of loading (the same day's when the hour is
\* before 8, the next day's otherwise), on a later day than the stored one.
C16_ResetTimeIsNextResetHour ==
    ResetOnLoad
      => /\ quota_data.reset_time % 24 = 8
         /\ now < quota_data.reset_time
         /\ quota_data.reset_time <= now + 24
         /\ quota_data.reset_time \div 24 > StoredResetTime \div 24

C16_Witness ==
    /\ ResetOnLoad
    /\ json_member(snap.before[1], "used_quota") > 0
    /\ quota_data.used_quota = 0
    /\ quota_data.reset_time = StoredResetTime + 48

\* C29: check_quota, can_perform_operations, get_quota_status and
\* estimate_operation_cost leave the ledger (used_quota, remaining_quota,
\* reset_time, operations log), the quota file and the token bucket as they
\* were; wait_for_token leaves the ledger and the file as they were, and
\* consume_quota the token bucket.
C29_ReadingCallsChangeNothing ==
    [][ /\ snap'.op \in Queries
             => UNCHANGED << quota_data, quota_file, tokens, since_refill >>
        /\ snap'.op = "wait_for_token" => UNCHANGED << quota_data, quota_file >>
        /\ snap'.op = "consume_quota" => UNCHANGED << tokens, since_refill >> ]_vars

C29_Witness ==
    /\ Called("get_quota_status")
    /\ snap.result.used = 1650
    /\ snap.result.remaining = -1649
    /\ snap.result.daily_quota = 1
    /\ tokens = 0
    /\ quota_file = << json_dump(quota_data) >>

\* the sum of the cost fields of a log
RECURSIVE SumOfCosts(_)
SumOfCosts(operations) ==
    IF operations = << >> THEN 0
    ELSE Head(operations).cost + SumOfCosts(Tail(operations))

\* C36: a consume_quota call appends one record, of its operation and
\* cost, to the log and leaves the earlier records as they were, so the
\* log of a ledger that began fresh or reset holds the calls in call
\* order; used_quota is the sum of the costs in the log.
C36_LogAccountsForUsage ==
    pc = "up"
      => /\ quota_data.used_quota = SumOfCosts(quota_data.operations)
         /\ Called("consume_quota")
               => /\ Len(quota_data.operations) = Len(snap.before.operations) + 1
                  /\ SubSeq(quota_data.operations, 1, Len(snap.before.operations))
                        = snap.before.operations
                  /\ quota_data.operations[Len(quota_data.operations)].type = snap.arg
                  /\ quota_data.operations[Len(quota_data.operations)].cost = CostOf(snap.arg)

C36_Witness ==
    /\ Called("consume_quota")
    /\ snap.arg = "video_upload"
    /\ Len(quota_data.operations) = 2
    /\ quota_data.operations[1].type = "playlist_insert"
    /\ quota_data.operations[2].type = "video_upload"
    /\ quota_data.used_quota = 1650
    /\ quota_data.reset_time > 24

\* C38: a RateLimiter constructed when the quota file is missing, cannot be
\* read or parsed, or has no reset_time, is constructed without an
\* exception and has a fresh ledger of the configured daily quota: nothing
\* used, an empty log, whatever the file recorded.
C38_UnusableFileGivesFreshLedger ==
    (Called("load") /\ (snap.before = NoFile \/ ~json_has(snap.before[1], "reset_time")))
      => /\ snap.result = "returned"
         /\ quota_data.daily_quota = snap.arg
         /\ quota_data.used_quota = 0
         /\ quota_data.remaining_quota = snap.arg
         /\ quota_data.operations = << >>
         /\ quota_data.reset_time > now

C38_Witness ==
    /\ Called("load")
    /\ snap.before # NoFile
    /\ ~json_has(snap.before[1], "reset_time")
    /\ json_has(snap.before[1], "used_quota")
    /\ json_member(snap.before[1], "used_quota") = 1650
    /\ json_member(snap.before[1], "daily_quota") = 1650
    /\ snap.arg = 1
    /\ quota_data.remaining_quota = 1

\* C19: for an operation type outside the cost table, in every ledger
\* state, check_quota returns true, estimate_operation_cost returns 0 and
\* consume_quota leaves used_quota and remaining_quota as they were.
C19_UnknownOperationIsFree ==
    (pc = "up" /\ snap.op \in {"check_quota", "estimate_operation_cost", "consume_quota"}
               /\ snap.arg = UnknownOperation)
      => /\ snap.op = "check_quota" => snap.result
         /\ snap.op = "estimate_operation_cost" => snap.result = 0
         /\ snap.op = "consume_quota"
               => /\ quota_data.used_quota = snap.before.used_quota
                  /\ quota_data.remaining_quota = snap.before.remaining_quota

\* C20: consume_quota returns normally whether or not the quota file can
\* be written, the ledger in memory is updated the same way in both cases,
\* and a later check_quota answers from the ledger in memory.
C20_FailedWriteKeepsTheConsumption ==
    /\ Called("consume_quota")
         => /\ snap.result = "returned"
            /\ quota_data =
                 [ snap.before EXCEPT
                     !.used_quota = @ + CostOf(snap.arg),
                     !.remaining_quota = @ - CostOf(snap.arg),
                     !.operations = Append(@, [ type |-> snap.arg,
                                                cost |-> CostOf(snap.arg),
                                                details |-> None ]) ]
            /\ data_writable => quota_file = << json_dump(quota_data) >>
    /\ Called("check_quota")
         => /\ snap.before = quota_data
            /\ snap.result <=> CostOf(snap.arg) <= quota_data.remaining_quota

C20_Witness ==
    /\ Called("check_quota")
    /\ ~data_writable
    /\ quota_file = NoFile
    /\ quota_data.daily_quota = 1650
    /\ Len(quota_data.operations) = 1
    /\ snap.arg = "video_upload"
    /\ ~snap.result

\* C30: after every consume_quota call whose write succeeds the document
\* in the quota file reads back as the ledger in memory, and a RateLimiter
\* constructed from a quota file before the stored reset_time has the
\* used_quota, remaining_quota, reset_time and operations log of the file.
C30_LedgerSurvivesTheFile ==
    /\ (Called("consume_quota") /\ data_writable)
          => /\ quota_file # NoFile
             /\ json_load(quota_file[1]) = quota_data
    /\ (Loaded /\ now < StoredResetTime)
          => /\ quota_data.used_quota = json_member(snap.before[1], "used_quota")
             /\ quota_data.remaining_quota = json_member(snap.before[1], "remaining_quota")
             /\ quota_data.reset_time = StoredResetTime
             /\ Len(quota_data.operations) = Len(json_member(snap.before[1], "operations"))
             /\ json_dump(quota_data) = snap.before[1]

C30_Witness ==
    /\ Loaded
    /\ now < StoredResetTime
    /\ now > 24
    /\ quota_data.used_quota = 1650
    /\ quota_data.daily_quota = 1650
    /\ snap.arg = 1
    /\ Len(quota_data.operations) = 2
    /\ quota_data.operations[2].type = "playlist_insert"

(***************************************************************************)
(* Claims about the token bucket of a RateLimiter (checked under           *)
(* SpecBucket).  tokens and snap.refilled are in sixtieths of a token.     *)
(***************************************************************************)

\* C17: in every state, after construction and after any sequence of
\* wait_for_token calls, 0 <= tokens <= max_requests_per_minute.
C17_TokensWithinBucket ==
    /\ 0 <= tokens
    /\ tokens <= max_requests_per_minute * 60

C17_Witness ==
    /\ snap.op = "wait_for_token"
    /\ max_requests_per_minute = 2
    /\ snap.refilled > 0
    /\ snap.slept > 0
    /\ tokens = 0
    /\ since_refill = 60

\* C18: wait_for_token that finds t < 1 tokens after refilling sleeps
\* (1 - t) * (60 / capacity) seconds and leaves 0 tokens; finding t >= 1 it
\* does not sleep and leaves t - 1.
C18_WaitIsTheTimeOfTheMissingPart ==
    snap.op = "wait_for_token"
      => IF snap.refilled < 60
         THEN /\ snap.slept * max_requests_per_minute * 60 = (60 - snap.refilled) * 60
              /\ tokens = 0
         ELSE /\ snap.slept = 0
              /\ tokens = snap.refilled - 60

C18_Witness ==
    /\ snap.op = "wait_for_token"
    /\ max_requests_per_minute = 60
    /\ snap.refilled = 0
    /\ snap.slept = 1
    /\ tokens = 0

(***************************************************************************)
(* Claims about the rate of the token bucket (checked under SpecWindow).   *)
(***************************************************************************)

\* C37: in a window of T seconds, begun at any moment, no more than
\* capacity + T * capacity / 60 wait_for_token calls return; and of the
\* calls made back to back on a new RateLimiter the first `capacity`
\* return without sleeping and the next one sleeps.
C37_ThrottleBoundsTheRate ==
    /\ calls.window.open
          => calls.window.returned * 60
               <= max_requests_per_minute * 60
                    + calls.window.elapsed * max_requests_per_minute
    /\ (snap.op = "wait_for_token" /\ calls.back_to_back >= 1)
          => (snap.slept = 0 <=> calls.back_to_back <= max_requests_per_minute)

C37_Witness ==
    /\ max_requests_per_minute = 2
    /\ calls.window.open
    /\ calls.window.elapsed = 30
    /\ calls.window.returned = 3
    /\ calls.back_to_back = 3
    /\ snap.op = "wait_for_token"
    /\ snap.slept = 30

(***************************************************************************)
(* Claims about one upload_video call (checked under SpecUpload).          *)
(***************************************************************************)

\* C7: when every chunk-send fails with a retryable 5xx error, the call
\* makes at most max_retries + 1 chunk-sends in total.
C7_SendsBoundedByMaxRetries ==
    (up.sends > 0 /\ up.all_5xx) => up.sends <= up.max_retries + 1

\* C8: after a non-retryable HTTP failure of a chunk-send the call makes no
\* further chunk-send and does not sleep.
C8_NonRetryablePropagatesAtOnce ==
    up.fatal.seen => (up.fatal.sends = 0 /\ up.fatal.sleeps = 0)

\* C9: a chunk failure that is an HTTP 500/502/503/504 or a resumable-upload
\* error raises the error counter to N, and when N <= max_retries the retry
\* that follows is delayed by retry_delay * 2^N seconds.
C9_RetryDelayIsExponentialInCounter ==
    LET f == up.last_fail
    IN  ( /\ \/ (f.kind = "http" /\ f.status \in {500, 502, 503, 504})
             \/ f.kind = "resumable"
          /\ f.before + 1 <= up.max_retries
          /\ f.slept_by # None )
        => ( /\ f.after = f.before + 1
             /\ f.delay = up.retry_delay * Pow2(f.after) )

\* C26: a connection failure of a chunk-send is handled as a 5xx error is:
\* it raises the error counter to N, when N <= max_retries the retry that
\* follows is delayed by retry_delay * 2^N seconds, and when N > max_retries
\* the call gives up.
C26_ConnectionFailureBacksOffLikeServerError ==
    LET f == up.last_fail
    IN  f.kind = "connection"
          => /\ f.after = f.before + 1
             /\ IF f.after <= up.max_retries
                THEN f.slept_by # None /\ f.delay = up.retry_delay * Pow2(f.after)
                ELSE up.status \in {"raised", "done"}

\* C27: within one upload_video call the chunks the session has
\* acknowledged never become fewer, whichever retry follows a failure (the
\* loop's or the wrapper's), and no chunk is acknowledged twice: the
\* progress results received are the chunks acknowledged, fewer than the
\* file has while the response is awaited.
C27_RetriesResumeTheSession ==
    /\ [][up'.acked >= up.acked]_vars
    /\ [](up.cb_calls = up.acked /\ up.acked <= up.nchunks - 1)

C27_Witness ==
    /\ up.status = "done"
    /\ up.result = "id"
    /\ up.nchunks = 2
    /\ up.acked = 1
    /\ up.attempt = 3
    /\ up.error_count = 1
    /\ up.sends = 5

\* a pass of the chunk loop in which next_chunk failed and the loop counted
\* the failure
CountedFailure ==
    /\ up.status = "running"
    /\ up'.sends = up.sends + 1
    /\ up'.last_fail.after = up'.last_fail.before + 1
    /\ up'.last_fail # up.last_fail \/ up'.sleeps > up.sleeps \/ up'.status = "raised"

\* C39: within one invocation of the chunk loop the error counter is never
\* lowered, a chunk that is sent leaves it as it is, and every counted
\* failure raises it by one from wherever the earlier failures left it: the
\* failure that takes it past max_retries leaves the loop as an exception,
\* without a sleep of the loop, and each earlier one is followed by a sleep
\* of retry_delay * 2^counter.
C39_RetryBudgetIsPerInvocation ==
    [][ /\ (up.status = "running" /\ up'.attempt = up.attempt)
              => up'.error_count >= up.error_count
        /\ (up.status = "running" /\ up'.acked = up.acked + 1)
              => up'.error_count = up.error_count /\ up'.attempt = up.attempt
        /\ CountedFailure
              => /\ up'.last_fail.before = up.error_count
                 /\ IF up.error_count + 1 > up.max_retries
                    THEN /\ up'.status = "raised" \/ up'.attempt = up.attempt + 1
                         /\ up'.last_fail.slept_by # "loop"
                    ELSE /\ up'.status = "running"
                         /\ up'.attempt = up.attempt
                         /\ up'.error_count = up.error_count + 1
                         /\ up'.last_fail.slept_by = "loop"
                         /\ up'.slept = up.slept
                               + up.retry_delay * Pow2(up.error_count + 1) ]_vars

C39_Witness ==
    /\ up.status = "running"
    /\ up.attempt = 1
    /\ up.max_retries = 2
    /\ up.nchunks = 2
    /\ up.acked = 1
    /\ up.sends = 3
    /\ up.error_count = 2
    /\ up.last_fail.before = 1
    /\ up.last_fail.slept_by = "loop"
    /\ up.slept = up.retry_delay * 2 + up.retry_delay * 4

\* C28: an upload_video call of a valid file made when rich cannot be
\* imported still sends the file's chunks, and returns the id when the
\* transfer ends with a response that carries one.
C28_TransferSurvivesMissingRich ==
    (up.status = "done" /\ up.valid /\ ~up.rich_available)
      => /\ up.sends >= 1
         /\ up.response = "id" => up.result = "id"

\* C10: whatever the chunk results, a transfer whose progress callback
\* raises on some of its invocations is in the same state (same result, same
\* chunk-sends, same sleeps) as the transfer whose callback never raises.
C10_CallbackNeverChangesOutcome ==
    [ up EXCEPT !.cb_raised = 0 ] = ref

C10_Witness ==
    up.status = "done" /\ up.result = "id" /\ up.cb_raised > 0 /\ up.sends > 2

=============================================================================
